---- MODULE Spec2Model ----
(***************************************************************************)
(* Atlas Compliance Engine (ACE) prototype: template registry, record      *)
(* validator, in-memory record store and the HTTP handlers around them.    *)
(*                                                                         *)
(* Conventions of the model                                                *)
(*  - a JavaScript string that the code matches against a regular          *)
(*    expression is a sequence of one-character strings; identifiers that  *)
(*    are only compared (template ids, field keys, message texts) are      *)
(*    TLA+ strings;                                                        *)
(*  - a JavaScript number is an integer count of Unit = 10^-7, so that     *)
(*    90.0001 and 1e-7 are representable; Infinity is a value of its own;  *)
(*  - a JSON value is a record [k, n, s]: k the JavaScript type, n the     *)
(*    numeric payload, s the string payload;                               *)
(*  - a JSON object is a function from the keys it carries to values: a    *)
(*    key outside its DOMAIN reads as undefined.                           *)
(***************************************************************************)
EXTENDS Integers, Sequences, FiniteSets, TLC

VARIABLES
  templates,   \* templates.js: the registry array
  models,      \* index.js: const models = new Map()
  records,     \* index.js: const records = new Map()
  uuidSeq,     \* number of identifiers uuid() has handed out
  lastReq,     \* the request handled last
  lastRes,     \* the response it got
  vTemplateId, \* validator run: argument templateId
  vData,       \* validator run: argument data
  vResult,     \* validator run: returned value (or the throw)
  tokens,      \* oauth.js: const tokens = new Map()
  clock,       \* Date.now(), in milliseconds since the process started
  ticks,       \* number of times the clock has been advanced
  tokenSeq,    \* number of tokens uuid() has handed out in oauth.js
  authReq,     \* oauth.js: the request handled last
  authRes,     \* oauth.js: the response it got, or the call of next()
  ckanCall,    \* ckan.js: the arguments of normalizeResponse
  ckanResult,  \* ckan.js: the value normalizeResponse returned
  wsConns,     \* ws-server.js: the ws objects, with ws.modelId and ws.user
  wsStore,     \* ws-server.js: const store = {}
  wsPresence,  \* ws-server.js: const presence = {}
  wsSent,      \* ws-server.js: the messages the last event sent to each connection
  wsEvent,     \* ws-server.js: the event handled last
  wsEvents,    \* ws-server.js: number of join and patch messages handled
  aiCall       \* ai-schema-generator.js: the call of generateSchemaWithAI

appVars == <<templates, models, records, uuidSeq, lastReq, lastRes,
             vTemplateId, vData, vResult>>

authVars == <<tokens, clock, ticks, tokenSeq, authReq, authRes>>

ckanVars == <<ckanCall, ckanResult>>

wsVars == <<wsConns, wsStore, wsPresence, wsSent, wsEvent, wsEvents>>

aiVars == <<aiCall>>

vars == <<appVars, authVars, ckanVars, wsVars, aiVars>>

-----------------------------------------------------------------------------
(* Bounds of the model *)

\* number of items the store may hold over all models
MaxItems == 1
\* number of fields of the base record a validator input perturbs at once
MaxEdits == 2
\* number of tokens the token endpoint issues
MaxTokens == 2
\* number of times the clock is advanced
MaxTicks == 3
\* number of WebSocket connections
MaxConns == 2
\* number of join and patch messages the relay handles
MaxEvents == 3

-----------------------------------------------------------------------------
(* JSON values *)

Undefined == [k |-> "undefined", n |-> 0, s |-> <<>>]
Null      == [k |-> "null", n |-> 0, s |-> <<>>]
Str(cs)   == [k |-> "string", n |-> 0, s |-> cs]
Num(n)    == [k |-> "number", n |-> n, s |-> <<>>]
\* JSON "-0" parses to negative zero
NegZero   == [k |-> "number", n |-> 0, s |-> <<"-">>]
\* a JSON literal such as 1e999 parses to Infinity (sign in n)
Infinity(sign) == [k |-> "infinity", n |-> sign, s |-> <<>>]
Bool(b)   == [k |-> "boolean", n |-> IF b THEN 1 ELSE 0, s |-> <<>>]

\* typeof v === "number" (Infinity is a number)
IsNumber(v) == v.k \in {"number", "infinity"}
IsString(v) == v.k = "string"

\* obj[key]
Get(obj, key) == IF key \in DOMAIN obj THEN obj[key] ELSE Undefined

\* one unit of the fixed-point numbers is 10^-7; Scale units make 1
Scale == 10 * 1000000

Digits == {"0", "1", "2", "3", "4", "5", "6", "7", "8", "9"}
Lower == {"a", "b", "c", "d", "e", "f", "g", "h", "i", "j", "k", "l", "m",
          "n", "o", "p", "q", "r", "s", "t", "u", "v", "w", "x", "y", "z"}
Upper == {"A", "B", "C", "D", "E", "F", "G", "H", "I", "J", "K", "L", "M",
          "N", "O", "P", "Q", "R", "S", "T", "U", "V", "W", "X", "Y", "Z"}

DigitChar(d) ==
  CASE d = 0 -> "0" [] d = 1 -> "1" [] d = 2 -> "2" [] d = 3 -> "3"
    [] d = 4 -> "4" [] d = 5 -> "5" [] d = 6 -> "6" [] d = 7 -> "7"
    [] d = 8 -> "8" [] d = 9 -> "9"

RECURSIVE NatToChars(_)
NatToChars(n) ==
  IF n < 10 THEN <<DigitChar(n)>>
  ELSE NatToChars(n \div 10) \o <<DigitChar(n % 10)>>

\* the digits of f padded with leading zeros to k digits, trailing zeros cut
RECURSIVE PadFrac(_, _)
PadFrac(f, k) ==
  IF f = 0 THEN <<>>
  ELSE LET body == NatToChars(f)
           RECURSIVE Zeros(_)
           Zeros(z) == IF z <= 0 THEN <<>> ELSE <<"0">> \o Zeros(z - 1)
       IN Zeros(k - Len(body)) \o body

RECURSIVE StripZeros(_)
StripZeros(cs) ==
  IF Len(cs) > 0 /\ cs[Len(cs)] = "0" THEN StripZeros(SubSeq(cs, 1, Len(cs) - 1))
  ELSE cs

Abs(n) == IF n < 0 THEN 0 - n ELSE n

\* `${value}`: Number::toString. A magnitude below 1e-6 prints in exponent
\* notation (1e-7), every other magnitude of the model as a plain decimal.
NumberToString(v) ==
  IF v.k = "infinity"
    THEN (IF v.n < 0 THEN <<"-">> ELSE <<>>)
         \o <<"I", "n", "f", "i", "n", "i", "t", "y">>
  ELSE LET a == Abs(v.n)
           sign == IF v.n < 0 THEN <<"-">> ELSE <<>>
       IN IF a = 0 THEN <<"0">>
          ELSE IF a < 10 THEN sign \o <<DigitChar(a), "e", "-", "7">>
          ELSE LET frac == StripZeros(PadFrac(a % Scale, 7))
               IN sign \o NatToChars(a \div Scale)
                       \o (IF frac = <<>> THEN <<>> ELSE <<".">> \o frac)

AllIn(cs, class) == \A i \in 1..Len(cs) : cs[i] \in class

\* /^-?\d+(\.\d+)?$/
DecimalRegexTest(cs) ==
  LET body == IF Len(cs) > 0 /\ cs[1] = "-" THEN Tail(cs) ELSE cs
      dots == {i \in 1..Len(body) : body[i] = "."}
  IN \/ Len(body) > 0 /\ AllIn(body, Digits)
     \/ \E d \in dots :
          /\ d > 1 /\ d < Len(body)
          /\ AllIn(SubSeq(body, 1, d - 1), Digits)
          /\ AllIn(SubSeq(body, d + 1, Len(body)), Digits)

\* const dateRegex = /^\d{4}-(0[1-9]|1[0-2])-(0[1-9]|[12]\d|3[01])$/
dateRegex(cs) ==
  /\ Len(cs) = 10
  /\ AllIn(SubSeq(cs, 1, 4), Digits)
  /\ cs[5] = "-"
  /\ \/ cs[6] = "0" /\ cs[7] \in Digits \ {"0"}
     \/ cs[6] = "1" /\ cs[7] \in {"0", "1", "2"}
  /\ cs[8] = "-"
  /\ \/ cs[9] = "0" /\ cs[10] \in Digits \ {"0"}
     \/ cs[9] \in {"1", "2"} /\ cs[10] \in Digits
     \/ cs[9] = "3" /\ cs[10] \in {"0", "1"}

\* field.pattern: the regular expressions that occur, by their source
NoPattern == ""
RegexTest(pattern, cs) ==
  CASE pattern = "^[0-9]{6}$" -> Len(cs) = 6 /\ AllIn(cs, Digits)
    [] pattern = "^[0-9]{7}$" -> Len(cs) = 7 /\ AllIn(cs, Digits)
    [] pattern = "^[A-Za-z0-9_-]+$" ->
         Len(cs) > 0 /\ AllIn(cs, Upper \cup Lower \cup Digits \cup {"_", "-"})
    [] pattern = "^[0-9]+$" -> Len(cs) > 0 /\ AllIn(cs, Digits)

\* new RegExp(source) succeeds (it throws a SyntaxError on "[")
RegExpCompiles(source) ==
  source \in {"^[0-9]{6}$", "^[0-9]{7}$", "^[A-Za-z0-9_-]+$", "^[0-9]+$"}

-----------------------------------------------------------------------------
(* Template registry: src/templates.js *)

\* mandatoryMark: "(o)" stands for the double circle mark of the standard
\* dataset; NoMark for a field that carries no mandatoryMark
MandatoryMark == "(o)"
NoMark == ""

\* options: undefined
NoOptions == [defined |-> FALSE, values |-> <<>>]
Options(values) == [defined |-> TRUE, values |-> values]

Field(fieldKey, type, required, pattern, mandatoryMark, options) ==
  [fieldKey |-> fieldKey, type |-> type, required |-> required,
   pattern |-> pattern, mandatoryMark |-> mandatoryMark, options |-> options]

FacilityTypeOptions ==
  Options(<<<<"c", "i", "t", "y", "O", "f", "f", "i", "c", "e">>,
     <<"l", "i", "b", "r", "a", "r", "y">>,
     <<"c", "o", "m", "m", "u", "n", "i", "t", "y", "C", "e", "n", "t", "e", "r">>,
     <<"p", "a", "r", "k">>,
     <<"g", "y", "m", "n", "a", "s", "i", "u", "m">>,
     <<"m", "u", "s", "e", "u", "m">>,
     <<"o", "t", "h", "e", "r">>>>)
PediatricSupportOptions ==
  Options(<<<<"y", "e", "s">>,
     <<"n", "o">>>>)
AvailabilityOptions ==
  Options(<<<<"w", "e", "e", "k", "d", "a", "y">>,
     <<"w", "e", "e", "k", "e", "n", "d">>,
     <<"h", "o", "l", "i", "d", "a", "y">>,
     <<"a", "l", "l", "D", "a", "y", "s">>>>)

PublicFacilities ==
  [id |-> "public-facilities", label |-> "Public Facilities List", fields |-> <<
  Field("localGovernmentCode", "string", TRUE, "^[0-9]{6}$", MandatoryMark, NoOptions),
    Field("identifier", "string", TRUE, "^[A-Za-z0-9_-]+$", MandatoryMark, NoOptions),
    Field("name", "string", TRUE, NoPattern, MandatoryMark, NoOptions),
    Field("nameEn", "string", FALSE, NoPattern, NoMark, NoOptions),
    Field("address", "string", TRUE, NoPattern, MandatoryMark, NoOptions),
    Field("postalCode", "string", FALSE, "^[0-9]{7}$", NoMark, NoOptions),
    Field("phoneNumber", "string", FALSE, NoPattern, NoMark, NoOptions),
    Field("facilityType", "controlledVocabulary", TRUE, NoPattern, MandatoryMark, FacilityTypeOptions),
    Field("administrator", "string", FALSE, NoPattern, NoMark, NoOptions),
    Field("latitude", "latitude", TRUE, NoPattern, MandatoryMark, NoOptions),
    Field("longitude", "longitude", TRUE, NoPattern, MandatoryMark, NoOptions),
    Field("datasetUpdatedAt", "date", TRUE, NoPattern, MandatoryMark, NoOptions),
    Field("note", "string", FALSE, NoPattern, NoMark, NoOptions) >>]

AedLocations ==
  [id |-> "aed-locations", label |-> "AED Locations List", fields |-> <<
  Field("localGovernmentCode", "string", TRUE, "^[0-9]{6}$", MandatoryMark, NoOptions),
    Field("identifier", "string", TRUE, "^[A-Za-z0-9_-]+$", MandatoryMark, NoOptions),
    Field("name", "string", TRUE, NoPattern, MandatoryMark, NoOptions),
    Field("address", "string", TRUE, NoPattern, MandatoryMark, NoOptions),
    Field("installationPlace", "string", TRUE, NoPattern, MandatoryMark, NoOptions),
    Field("availableHours", "string", FALSE, NoPattern, NoMark, NoOptions),
    Field("pediatricSupport", "controlledVocabulary", TRUE, NoPattern, MandatoryMark, PediatricSupportOptions),
    Field("availability", "controlledVocabulary", FALSE, NoPattern, NoMark, AvailabilityOptions),
    Field("contactPhone", "string", FALSE, NoPattern, NoMark, NoOptions),
    Field("latitude", "latitude", TRUE, NoPattern, MandatoryMark, NoOptions),
    Field("longitude", "longitude", TRUE, NoPattern, MandatoryMark, NoOptions),
    Field("datasetUpdatedAt", "date", TRUE, NoPattern, MandatoryMark, NoOptions),
    Field("note", "string", FALSE, NoPattern, NoMark, NoOptions) >>]

\* const templates = [ ... ]
BuiltInTemplates == <<PublicFacilities, AedLocations>>

Range(seq) == {seq[i] : i \in 1..Len(seq)}

\* templates.find((tpl) => tpl.id === id): the first match
FindIndex(tpls, id) ==
  IF \E i \in 1..Len(tpls) : tpls[i].id = id
    THEN CHOOSE i \in 1..Len(tpls) :
           tpls[i].id = id /\ \A j \in 1..(i - 1) : tpls[j].id # id
    ELSE 0

\* getTemplateById(id) !== undefined
HasTemplate(tpls, id) == FindIndex(tpls, id) # 0

\* getTemplateById(id), where it is defined
getTemplateById(tpls, id) == tpls[FindIndex(tpls, id)]

-----------------------------------------------------------------------------
(* Validator: src/validation.js. The zod schema buildZodSchema assembles is  *)
(* modelled by what safeParse does with it: every parser returns a status    *)
(* ("valid", "dirty" after a failed check or refinement, "aborted" after a   *)
(* type error) and the issues it raised; a refinement runs unless the parser *)
(* under it aborted; an object parses every key of its shape, in the shape's *)
(* order, keeps the keys of its shape alone and is aborted when one of its   *)
(* values is.                                                                *)

\* an entry of the returned errors array; stage-2 entries are
\* `${err.path.join(".")}: ${err.message}`, the others the bare message
ZodError(path, message, arg) ==
  [prefixed |-> TRUE, path |-> path, message |-> message, arg |-> arg]
PlainError(message, arg) ==
  [prefixed |-> FALSE, path |-> "", message |-> message, arg |-> arg]

\* getParsedType(data), the name zod prints
ParsedType(v) ==
  CASE v.k = "infinity" -> "number"
    [] OTHER -> v.k


\* Parsed with a type error that does not abort the parse
ParsedNeverAborts(status, issues) ==
  [status |-> IF status = "aborted" THEN "dirty" ELSE status, issues |-> issues]

Parsed(status, issues) == [status |-> status, issues |-> issues]

\* the invalid_type issue of the default error map
InvalidType(key, expected, v) ==
  IF v = Undefined THEN ZodError(key, "Required", <<>>)
  ELSE ZodError(key, "Expected ${expected}, received ${received}",
                <<expected, ParsedType(v)>>)

\* CoordinateBound with the bound of the longitude for either key
CoordinateBoundLongitude(fieldKey) == 180 * Scale

\* the bound coordinateSchema applies: fieldKey === "latitude" ? 90 : 180
CoordinateBound(fieldKey) == IF fieldKey = "latitude" THEN 90 * Scale ELSE 180 * Scale


\* AbsWithin with the bound itself excluded
AbsWithinExclusive(v, bound) == v.k = "number" /\ Abs(v.n) < bound

\* Math.abs(value) <= bound, for a number
AbsWithin(v, bound) == v.k = "number" /\ Abs(v.n) <= bound

\* coordinateSchema(fieldKey).safeParse(v), v not undefined-and-optional
coordinateSchema(fieldKey, v) ==
  IF ~IsNumber(v) THEN
    Parsed("aborted",
      <<IF v = Undefined
          THEN ZodError(fieldKey, "${fieldKey} is required", <<fieldKey>>)
          ELSE ZodError(fieldKey, "${fieldKey} must be a number", <<fieldKey>>)>>)
  ELSE
    LET finite == IF v.k = "number" THEN <<>>
                  ELSE <<ZodError(fieldKey, "Number must be finite", <<>>)>>
        bounds == IF AbsWithin(v, CoordinateBound(fieldKey)) THEN <<>>
                  ELSE <<ZodError(fieldKey,
                          "${fieldKey} must satisfy GIF coordinate bounds",
                          <<fieldKey>>)>>
        form == IF DecimalRegexTest(NumberToString(v)) THEN <<>>
                ELSE <<ZodError(fieldKey,
                        "${fieldKey} must be numeric (GIF core data parts)",
                        <<fieldKey>>)>>
        issues == finite \o bounds \o form
    IN Parsed(IF issues = <<>> THEN "valid" ELSE "dirty", issues)

\* z.string() with the regex checks chained on it
StringSchema(field, v, isDate) ==
  IF ~IsString(v) THEN Parsed("aborted", <<InvalidType(field.fieldKey, "string", v)>>)
  ELSE
    LET date == IF isDate /\ ~dateRegex(v.s)
                  THEN <<ZodError(field.fieldKey, "${fieldKey} must be YYYY-MM-DD",
                                  <<field.fieldKey>>)>>
                  ELSE <<>>
        pat == IF field.pattern # NoPattern /\ ~RegexTest(field.pattern, v.s)
                 THEN <<ZodError(field.fieldKey, "${fieldKey} is not valid",
                                 <<field.fieldKey>>)>>
                 ELSE <<>>
        issues == date \o pat
    IN Parsed(IF issues = <<>> THEN "valid" ELSE "dirty", issues)

\* base.regex is not a function: only z.string() has .regex
PatternThrows(field) ==
  field.pattern # NoPattern /\ field.type \notin {"string", "date"}

\* buildZodSchema(template) throws a TypeError
BuildThrows(template) ==
  \E i \in 1..Len(template.fields) : PatternThrows(template.fields[i])

\* shape[field.fieldKey].safeParse(v): the parser buildZodSchema makes of a field
ParseField(field, v) ==
  IF ~field.required /\ v = Undefined THEN Parsed("valid", <<>>)
  ELSE CASE field.type = "controlledVocabulary" ->
              IF ~field.options.defined THEN Parsed("throw", <<>>)
              ELSE IF ~IsString(v)
                THEN Parsed("aborted", <<InvalidType(field.fieldKey, "enum", v)>>)
              ELSE IF v.s \notin Range(field.options.values)
                THEN Parsed("aborted",
                       <<ZodError(field.fieldKey, "Invalid enum value", <<>>)>>)
              ELSE Parsed("valid", <<>>)
         [] field.type = "boolean" ->
              IF v.k = "boolean" THEN Parsed("valid", <<>>)
              ELSE Parsed("aborted", <<InvalidType(field.fieldKey, "boolean", v)>>)
         [] field.type = "number" ->
              IF IsNumber(v) THEN Parsed("valid", <<>>)
              ELSE Parsed("aborted", <<InvalidType(field.fieldKey, "number", v)>>)
         [] field.type \in {"latitude", "longitude"} ->
              coordinateSchema(field.fieldKey, v)
         [] field.type = "date" -> StringSchema(field, v, TRUE)
         [] OTHER -> StringSchema(field, v, FALSE)

\* the keys of shape, in insertion order: a key assigned twice keeps its place
RECURSIVE ShapeKeysFrom(_, _, _)
ShapeKeysFrom(fields, i, seen) ==
  IF i > Len(fields) THEN <<>>
  ELSE IF fields[i].fieldKey \in seen THEN ShapeKeysFrom(fields, i + 1, seen)
  ELSE <<fields[i].fieldKey>>
       \o ShapeKeysFrom(fields, i + 1, seen \cup {fields[i].fieldKey})

ShapeKeys(template) == ShapeKeysFrom(template.fields, 1, {})

\* shape[key]: the parser of the last field that has the key
ShapeField(template, key) ==
  LET fs == template.fields
      i == CHOOSE j \in 1..Len(fs) :
             fs[j].fieldKey = key /\ \A m \in (j + 1)..Len(fs) : fs[m].fieldKey # key
  IN fs[i]

RECURSIVE ConcatIssues(_, _, _, _)
ConcatIssues(template, data, keys, i) ==
  IF i > Len(keys) THEN <<>>
  ELSE ParseField(ShapeField(template, keys[i]), Get(data, keys[i])).issues
       \o ConcatIssues(template, data, keys, i + 1)


\* StripUnknown with unknown keys passed through instead of stripped
StripUnknownPassthrough(template, data) ==
  [k \in {j \in DOMAIN data : data[j] # Undefined} |-> data[k]]

\* unknownKeys "strip": the parsed object keeps the keys of the shape that
\* carry a value
StripUnknown(template, data) ==
  LET keep == {k \in DOMAIN data : k \in Range(ShapeKeys(template))
                                   /\ data[k] # Undefined}
  IN [k \in keep |-> data[k]]


\* PairRefinement left out of the schema
PairRefinementDropped(obj) == TRUE

\* the refinement on the object: latitude and longitude together or not at all
PairRefinement(obj) ==
  \/ Get(obj, "latitude") = Undefined /\ Get(obj, "longitude") = Undefined
  \/ Get(obj, "latitude") # Undefined /\ Get(obj, "longitude") # Undefined

\* buildZodSchema(template).safeParse(data), buildZodSchema not throwing:
\* [status, issues, data]; success is status = "valid"
SafeParse(template, data) ==
  LET keys == ShapeKeys(template)
      st == {ParseField(ShapeField(template, keys[i]), Get(data, keys[i])).status :
               i \in 1..Len(keys)}
      fieldIssues == ConcatIssues(template, data, keys, 1)
      obj == StripUnknown(template, data)
  IN IF "throw" \in st THEN [status |-> "throw", issues |-> <<>>, data |-> obj]
     ELSE IF "aborted" \in st
       THEN [status |-> "aborted", issues |-> fieldIssues, data |-> obj]
     ELSE LET refined ==
                IF PairRefinement(obj) THEN <<>>
                ELSE <<ZodError("latitude",
                         "latitude and longitude must be provided together", <<>>)>>
              issues == fieldIssues \o refined
          IN [status |-> IF issues = <<>> THEN "valid" ELSE "dirty",
              issues |-> issues, data |-> obj]

\* template.fields.filter(mandatoryMark and value missing).map(fieldKey)
RECURSIVE MissingMandatoryFrom(_, _, _)
MissingMandatoryFrom(fields, obj, i) ==
  IF i > Len(fields) THEN <<>>
  ELSE (IF /\ fields[i].mandatoryMark = MandatoryMark
           /\ \/ Get(obj, fields[i].fieldKey) = Undefined
              \/ Get(obj, fields[i].fieldKey) = Str(<<>>)
          THEN <<fields[i].fieldKey>> ELSE <<>>)
       \o MissingMandatoryFrom(fields, obj, i + 1)


\* MissingMandatory that trusts the type pass and reports nothing
MissingMandatoryNone(template, obj) == <<>>

MissingMandatory(template, obj) == MissingMandatoryFrom(template.fields, obj, 1)

MandatoryErrors(missing) ==
  [i \in 1..Len(missing) |->
     PlainError("${fieldKey} is required (standard dataset mark)", <<missing[i]>>)]

\* Number(cs) for the strings of the model, which are either an optionally
\* signed run of at most four digits or no numeric literal at all (NaN);
\* the empty string converts to 0
RECURSIVE DigitsValue(_)
DigitsValue(cs) ==
  IF cs = <<>> THEN 0
  ELSE 10 * DigitsValue(SubSeq(cs, 1, Len(cs) - 1))
       + (CHOOSE d \in 0..9 : DigitChar(d) = cs[Len(cs)])

IsIntegerLiteral(cs) ==
  LET body == IF Len(cs) > 0 /\ cs[1] \in {"-", "+"} THEN Tail(cs) ELSE cs
  IN Len(body) \in 1..4 /\ AllIn(body, Digits)

\* Math.abs(v) > limit, v any value a parsed record can hold: a number as it
\* is, a string through Number(v), a boolean as 0 or 1; NaN > limit is false
AbsGreater(v, limit) ==
  CASE v.k = "number" -> Abs(v.n) > limit * Scale
    [] v.k = "infinity" -> TRUE
    [] v.k = "boolean" -> v.n > limit
    [] v.k = "string" ->
         /\ IsIntegerLiteral(v.s)
         /\ DigitsValue(IF v.s[1] \in {"-", "+"} THEN Tail(v.s) ELSE v.s) > limit
    [] OTHER -> FALSE

\* Number.isFinite(v)
IsFinite(v) == v.k = "number"


\* IsZero by Object.is(v, 0): negative zero is not zero
IsZeroSameValue(v) == v = Num(0)

\* v === 0 (negative zero included)
IsZero(v) == v.k = "number" /\ v.n = 0

validateCoordinates(latitude, longitude) ==
  IF latitude = Undefined \/ longitude = Undefined THEN <<>>
  ELSE (IF AbsGreater(latitude, 90)
          THEN <<PlainError("latitude must be within -90 to 90 (GIF core data parts)", <<>>)>>
          ELSE <<>>)
    \o (IF AbsGreater(longitude, 180)
          THEN <<PlainError("longitude must be within -180 to 180 (GIF core data parts)", <<>>)>>
          ELSE <<>>)
    \o (IF ~IsFinite(latitude) \/ ~IsFinite(longitude)
          THEN <<PlainError("coordinates must be numeric", <<>>)>>
          ELSE <<>>)
    \o (IF IsZero(latitude) /\ IsZero(longitude)
          THEN <<PlainError("coordinates cannot both be zero (invalid GIF location)", <<>>)>>
          ELSE <<>>)

\* what a call of validateItemAgainstTemplate produces: {ok: true, value,
\* template}, {ok: false, errors}, or a thrown TypeError
EmptyObject == [k \in {} |-> Undefined]
Ok(value, templateId) ==
  [outcome |-> "ok", errors |-> <<>>, value |-> value, template |-> templateId]
Failed(errors) ==
  [outcome |-> "errors", errors |-> errors, value |-> EmptyObject, template |-> ""]
Thrown ==
  [outcome |-> "throw", errors |-> <<>>, value |-> EmptyObject, template |-> ""]
\* no call made yet
NotRun ==
  [outcome |-> "none", errors |-> <<>>, value |-> EmptyObject, template |-> ""]


\* AfterParse that collects the errors of every stage before it returns
AfterParseCollectsAll(template, parsed) ==
  IF parsed.status = "throw" THEN Thrown
  ELSE LET errors == parsed.issues
                     \o MandatoryErrors(MissingMandatory(template, parsed.data))
                     \o validateCoordinates(Get(parsed.data, "latitude"),
                                            Get(parsed.data, "longitude"))
       IN IF Len(errors) > 0 THEN Failed(errors) ELSE Ok(parsed.data, template.id)

\* validateItemAgainstTemplate from the result of safeParse on
AfterParse(template, parsed) ==
  IF parsed.status = "throw" THEN Thrown
  ELSE IF parsed.status # "valid" THEN Failed(parsed.issues)
  ELSE
    LET missingMandatory == MissingMandatory(template, parsed.data)
        coordinateErrors ==
          validateCoordinates(Get(parsed.data, "latitude"),
                              Get(parsed.data, "longitude"))
    IN IF Len(missingMandatory) > 0
         THEN Failed(MandatoryErrors(missingMandatory))
       ELSE IF Len(coordinateErrors) > 0 THEN Failed(coordinateErrors)
       ELSE Ok(parsed.data, template.id)

validateItemAgainstTemplate(tpls, templateId, data) ==
  IF ~HasTemplate(tpls, templateId)
    THEN Failed(<<PlainError("Unknown template: ${templateId}", <<templateId>>)>>)
  ELSE
    LET template == getTemplateById(tpls, templateId)
    IN IF BuildThrows(template) THEN Thrown
       ELSE AfterParse(template, SafeParse(template, data))

-----------------------------------------------------------------------------
(* Schema confirmation: src/routes/excel-schema.js, POST /confirm *)

\* the characters of the identifiers the confirm endpoint tests
CharsOf(name) ==
  CASE name = "public-facilities" -> <<"p", "u", "b", "l", "i", "c", "-", "f", "a", "c", "i", "l", "i", "t", "i", "e", "s">>
    [] name = "aed-locations" -> <<"a", "e", "d", "-", "l", "o", "c", "a", "t", "i", "o", "n", "s">>
    [] name = "geo-points" -> <<"g", "e", "o", "-", "p", "o", "i", "n", "t", "s">>
    [] name = "survey-points" -> <<"s", "u", "r", "v", "e", "y", "-", "p", "o", "i", "n", "t", "s">>
    [] name = "meter-readings" -> <<"m", "e", "t", "e", "r", "-", "r", "e", "a", "d", "i", "n", "g", "s">>
    [] name = "Bad_ID" -> <<"B", "a", "d", "_", "I", "D">>
    [] name = "city-model" -> <<"c", "i", "t", "y", "-", "m", "o", "d", "e", "l">>
    [] name = "name" -> <<"n", "a", "m", "e">>
    [] name = "latitude" -> <<"l", "a", "t", "i", "t", "u", "d", "e">>
    [] name = "longitude" -> <<"l", "o", "n", "g", "i", "t", "u", "d", "e">>
    [] name = "note" -> <<"n", "o", "t", "e">>
    [] name = "surveyor" -> <<"s", "u", "r", "v", "e", "y", "o", "r">>
    [] name = "lat" -> <<"l", "a", "t">>
    [] name = "lng" -> <<"l", "n", "g">>
    [] name = "count" -> <<"c", "o", "u", "n", "t">>
    [] name = "id" -> <<"i", "d">>
    [] name = "depth" -> <<"d", "e", "p", "t", "h">>
    [] name = "tag" -> <<"t", "a", "g">>
    [] name = "tagged-items" -> <<"t", "a", "g", "g", "e", "d", "-", "i", "t", "e", "m", "s">>
    [] OTHER -> <<>>

\* /^[a-z0-9-]+$/
KebabCaseTest(cs) == Len(cs) > 0 /\ AllIn(cs, Lower \cup Digits \cup {"-"})

\* /^[a-zA-Z_][a-zA-Z0-9_]*$/
FieldKeyTest(cs) ==
  /\ Len(cs) > 0
  /\ cs[1] \in Lower \cup Upper \cup {"_"}
  /\ AllIn(cs, Lower \cup Upper \cup Digits \cup {"_"})

FieldTypes == {"string", "number", "date", "boolean", "latitude", "longitude",
               "controlledVocabulary"}

\* a field of a submitted schema: required is "true", "false" or "undefined"
\* (absent); pattern is the source of a regular expression, "" when absent
RawField(fieldKey, label, type, required, pattern, mandatoryMark, options) ==
  [fieldKey |-> fieldKey, label |-> label, type |-> type, required |-> required,
   pattern |-> pattern, mandatoryMark |-> mandatoryMark, options |-> options]

\* confirmSchema.safeParse(req.body).success
confirmSchema(schema) ==
  /\ KebabCaseTest(CharsOf(schema.id))
  /\ schema.label # ""
  /\ Len(schema.fields) >= 1
  /\ \A i \in 1..Len(schema.fields) :
       /\ FieldKeyTest(CharsOf(schema.fields[i].fieldKey))
       /\ schema.fields[i].label # ""
       /\ schema.fields[i].type \in FieldTypes
       /\ schema.fields[i].required \in {"true", "false", "undefined"}

\* the parsed field (required defaults to false) with its pattern converted:
\* new RegExp(field.pattern), the pattern deleted when that throws. The label
\* and description of a field are never read again and are left out.
ConvertField(raw) ==
  Field(raw.fieldKey, raw.type, raw.required = "true",
        IF raw.pattern # "" /\ RegExpCompiles(raw.pattern) THEN raw.pattern
        ELSE NoPattern,
        raw.mandatoryMark, raw.options)

ConvertSchema(schema) ==
  [id |-> schema.id, label |-> schema.label,
   fields |-> [i \in 1..Len(schema.fields) |-> ConvertField(schema.fields[i])]]


\* addTemplateThrows without the duplicate check
addTemplateNeverThrows(tpls, template) == FALSE

\* addTemplate(template) throws: the id is taken
addTemplateThrows(tpls, template) == HasTemplate(tpls, template.id)

\* addTemplate that writes the new template over the first of the registry
addTemplateOverwrite(tpls, template) ==
  [tpls EXCEPT ![1] = [id |-> template.id, label |-> template.label,
                       fields |-> template.fields]]

\* addTemplate that puts the new template in front
addTemplateUnshift(tpls, template) ==
  <<[id |-> template.id, label |-> template.label, fields |-> template.fields]>>
  \o tpls

\* addTemplate(template): the registry after the push
addTemplate(tpls, template) ==
  Append(tpls, [id |-> template.id, label |-> template.label,
                fields |-> template.fields])

GeoPointsSchema ==
  [id |-> "geo-points", label |-> "Geo points", fields |-> <<
   RawField("name", "Name", "string", "undefined", "", MandatoryMark, NoOptions),
   RawField("latitude", "Latitude", "latitude", "false", "", NoMark, NoOptions),
   RawField("longitude", "Longitude", "longitude", "undefined", "", NoMark, NoOptions),
   RawField("note", "Note", "string", "false", "[", NoMark, NoOptions),
   RawField("id", "Identifier", "string", "false", "", NoMark, NoOptions) >>]

SurveyPointsSchema ==
  [id |-> "survey-points", label |-> "Survey points", fields |-> <<
   RawField("surveyor", "Surveyor", "string", "true", "", NoMark, NoOptions),
   RawField("lat", "Lat", "latitude", "false", "", NoMark, NoOptions),
   RawField("lng", "Lng", "longitude", "false", "", NoMark, NoOptions),
   RawField("latitude", "Northing", "number", "false", "", NoMark, NoOptions),
   RawField("longitude", "Easting", "number", "false", "", NoMark, NoOptions),
   RawField("depth", "Depth", "number", "false", "", NoMark, NoOptions) >>]

MeterReadingsSchema ==
  [id |-> "meter-readings", label |-> "Meter readings", fields |-> <<
   RawField("count", "Count", "number", "true", "^[0-9]+$", MandatoryMark, NoOptions),
   RawField("latitude", "Latitude", "latitude", "false", "", NoMark, NoOptions),
   RawField("longitude", "Longitude", "longitude", "false", "", NoMark, NoOptions) >>]

\* a schema that defines the field key tag twice
TaggedItemsSchema ==
  [id |-> "tagged-items", label |-> "Tagged items", fields |-> <<
   RawField("tag", "Tag", "string", "true", "", NoMark, NoOptions),
   RawField("tag", "Tag number", "number", "false", "", NoMark, NoOptions) >>]

\* a schema that reuses the id of a built-in template
DuplicateSchema ==
  [id |-> "public-facilities", label |-> "Facilities copy", fields |-> <<
   RawField("name", "Name", "string", "true", "", NoMark, NoOptions) >>]

\* a schema whose id is not kebab-case
BadIdSchema ==
  [id |-> "Bad_ID", label |-> "Bad id", fields |-> <<
   RawField("name", "Name", "string", "true", "", NoMark, NoOptions) >>]

NoSchema == [id |-> "", label |-> "", fields |-> <<>>]


-----------------------------------------------------------------------------
(* HTTP surface: src/index.js. The actions are the handlers of requests that *)
(* passed ensureAuthenticated.                                               *)

\* a Map as a function from the keys it has
MapSet(map, key, value) ==
  [k \in DOMAIN map \cup {key} |-> IF k = key THEN value ELSE map[k]]

EmptyMap == [k \in {} |-> <<>>]

\* uuid(): the n-th identifier handed out, never one handed out before
Uuid(n) == [k |-> "uuid", n |-> n, s |-> <<>>]

\* { id: uuid(), ...validation.value }: a key id of the value overrides
MakeItem(n, value) ==
  [k \in {"id"} \cup DOMAIN value |-> IF k \in DOMAIN value THEN value[k] ELSE Uuid(n)]

Request(op, id, modelId, title, schema) ==
  [op |-> op, id |-> id, modelId |-> modelId, title |-> title, schema |-> schema]

Response(status, error, errors, item, items) ==
  [status |-> status, error |-> error, errors |-> errors, item |-> item,
   items |-> items]

NoRequest == Request("none", "", "", "", NoSchema)
NoResponse == Response(0, "", <<>>, EmptyObject, <<>>)

TemplateIds(tpls) == {tpls[i].id : i \in 1..Len(tpls)}

\* models.get(id) || getTemplateById(id) is defined
ModelKnown(id) == id \in DOMAIN models \/ HasTemplate(templates, id)

\* POST /v1/model-templates/:id/apply with body {modelId, title} ("" absent)
ApplyTemplate(id, bodyModelId, bodyTitle) ==
  /\ lastReq' = Request("apply", id, bodyModelId, bodyTitle, NoSchema)
  /\ IF ~HasTemplate(templates, id)
       THEN /\ lastRes' = Response(404, "Template not found", <<>>, EmptyObject, <<>>)
            /\ UNCHANGED <<models, records>>
       ELSE LET template == getTemplateById(templates, id)
                modelId == IF bodyModelId # "" THEN bodyModelId ELSE template.id
                title == IF bodyTitle # "" THEN bodyTitle ELSE template.label
            IN /\ models' = MapSet(models, modelId,
                              [id |-> template.id, label |-> template.label,
                               fields |-> template.fields, title |-> title])
               /\ records' = MapSet(records, modelId, <<>>)
               /\ lastRes' = Response(201, "", <<>>, EmptyObject, <<>>)
  /\ UNCHANGED <<templates, uuidSeq, vTemplateId, vData, vResult>>
  /\ UNCHANGED <<authVars, ckanVars, wsVars, aiVars>>

\* getTemplates(): the registry array itself
getTemplates(tpls) == tpls

\* GET /v1/model-templates
ListTemplates ==
  /\ lastReq' = Request("listTemplates", "", "", "", NoSchema)
  /\ lastRes' = [status |-> 200, templates |-> getTemplates(templates)]
  /\ UNCHANGED <<templates, models, records, uuidSeq, vTemplateId, vData, vResult>>
  /\ UNCHANGED <<authVars, ckanVars, wsVars, aiVars>>

\* models.get(id) || getTemplateById(id), where it is defined
ModelOf(id) ==
  IF id \in DOMAIN models THEN models[id] ELSE getTemplateById(templates, id)

\* GET /v1/models/:id/schema
GetSchema(id) ==
  /\ lastReq' = Request("schema", id, "", "", NoSchema)
  /\ lastRes' = IF ~ModelKnown(id)
                  THEN Response(404, "Model not found", <<>>, EmptyObject, <<>>)
                  ELSE [status |-> 200, modelId |-> id, schema |-> ModelOf(id).fields]
  /\ UNCHANGED <<templates, models, records, uuidSeq, vTemplateId, vData, vResult>>
  /\ UNCHANGED <<authVars, ckanVars, wsVars, aiVars>>

\* StoreItem that pushes the item twice
StoreItemTwice(recs, id, item) ==
  MapSet(recs, id,
         Append(Append(IF id \in DOMAIN recs THEN recs[id] ELSE <<>>, item), item))

\* if (!records.has(id)) records.set(id, []); records.get(id).push(item)
StoreItem(recs, id, item) ==
  MapSet(recs, id, Append(IF id \in DOMAIN recs THEN recs[id] ELSE <<>>, item))

\* POST /v1/models/:id/items
CreateItem(id, body) ==
  /\ lastReq' = Request("createItem", id, "", "", NoSchema)
  /\ IF ~ModelKnown(id)
       THEN /\ lastRes' = Response(404, "Model not found", <<>>, EmptyObject, <<>>)
            /\ UNCHANGED <<records, uuidSeq, vTemplateId, vData, vResult>>
       ELSE \E validation \in {validateItemAgainstTemplate(templates, id, body)} :
            LET item == MakeItem(uuidSeq + 1, validation.value)
            IN /\ vTemplateId' = id
               /\ vData' = body
               /\ vResult' = validation
               /\ CASE validation.outcome = "throw" ->
                         \* the error middleware answers
                         /\ lastRes' = Response(500, "Internal Error", <<>>,
                                                EmptyObject, <<>>)
                         /\ UNCHANGED <<records, uuidSeq>>
                    [] validation.outcome = "errors" ->
                         /\ lastRes' = Response(400, "", validation.errors,
                                                EmptyObject, <<>>)
                         /\ UNCHANGED <<records, uuidSeq>>
                    [] validation.outcome = "ok" ->
                         /\ uuidSeq < MaxItems
                         /\ uuidSeq' = uuidSeq + 1
                         /\ records' = StoreItem(records, id, item)
                         /\ lastRes' = Response(201, "", <<>>, item, <<>>)
  /\ UNCHANGED <<templates, models>>
  /\ UNCHANGED <<authVars, ckanVars, wsVars, aiVars>>

\* GET /v1/models/:id/items
ListItems(id) ==
  /\ lastReq' = Request("listItems", id, "", "", NoSchema)
  /\ lastRes' = Response(200, "", <<>>, EmptyObject,
                         IF id \in DOMAIN records THEN records[id] ELSE <<>>)
  /\ UNCHANGED <<templates, models, records, uuidSeq, vTemplateId, vData, vResult>>
  /\ UNCHANGED <<authVars, ckanVars, wsVars, aiVars>>

\* modelId.replace(/-/g, "_")
ReplaceDashes(cs) == [i \in 1..Len(cs) |-> IF cs[i] = "-" THEN "_" ELSE cs[i]]

\* the keys of the fields toNgsiEntity turns into properties
PropertyKeys(item, template) ==
  {template.fields[i].fieldKey : i \in 1..Len(template.fields)}
  \cap (DOMAIN item \ {"latitude", "longitude"})

\* OrionPublisher.toNgsiEntity(modelId, item, template): the entity as a
\* function of its keys, a property of the item overriding a key of the base
\* of the same name ("@context" is a constant and left out)
toNgsiEntity(modelId, item, template) ==
  [k \in {"id", "type"} \cup PropertyKeys(item, template)
         \cup (IF {"latitude", "longitude"} \subseteq DOMAIN item
                 THEN {"location"} ELSE {}) |->
     IF k \in PropertyKeys(item, template)
       THEN [type |-> "Property", value |-> item[k]]
     ELSE IF k = "id" THEN <<"urn:ace:", modelId, Get(item, "identifier")>>
     ELSE IF k = "type" THEN ReplaceDashes(CharsOf(modelId))
     ELSE [type |-> "GeoProperty",
           coordinates |-> <<item["longitude"], item["latitude"]>>]]

\* what the Orion-LD broker does with a publish: ORION_LD_URL is not set, the
\* broker answers 201, or it answers with a status that is not ok
OrionOutcomes == {"unset", "created", "failed"}

\* POST /v1/models/:id/items/:itemId/publish/orion
PublishOrion(id, itemId) ==
  /\ lastReq' = [op |-> "publish", id |-> id, itemId |-> itemId]
  /\ IF ~ModelKnown(id)
       THEN lastRes' = Response(404, "Model not found", <<>>, EmptyObject, <<>>)
       ELSE LET items == IF id \in DOMAIN records THEN records[id] ELSE <<>>
                found == {i \in 1..Len(items) : items[i]["id"] = itemId}
            IN IF found = {}
                 THEN lastRes' = Response(404, "Item not found", <<>>, EmptyObject, <<>>)
                 ELSE LET item == items[CHOOSE i \in found : \A j \in found : i <= j]
                          entity == toNgsiEntity(id, item, ModelOf(id))
                      IN \E outcome \in OrionOutcomes : lastRes' =
                           CASE outcome = "unset" -> [status |-> 202, entity |-> entity]
                             [] outcome = "created" -> [status |-> 201, entityId |-> entity["id"]]
                             [] OTHER -> [status |-> 500, error |-> "Orion-LD publish failed"]
  /\ UNCHANGED <<templates, models, records, uuidSeq, vTemplateId, vData, vResult>>
  /\ UNCHANGED <<authVars, ckanVars, wsVars, aiVars>>

\* POST /v1/excel-to-schema/confirm with body {schema}
Confirm(schema) ==
  /\ lastReq' = Request("confirm", schema.id, "", "", schema)
  /\ IF ~confirmSchema(schema)
       THEN /\ lastRes' = Response(400, "", <<>>, EmptyObject, <<>>)
            /\ UNCHANGED templates
       ELSE LET converted == ConvertSchema(schema)
            IN IF addTemplateThrows(templates, converted)
                 THEN /\ lastRes' = Response(409, "already exists", <<>>,
                                             EmptyObject, <<>>)
                      /\ UNCHANGED templates
                 ELSE /\ templates' = addTemplate(templates, converted)
                      /\ lastRes' = Response(201, "Template created successfully",
                                             <<>>, EmptyObject, <<>>)
  /\ UNCHANGED <<models, records, uuidSeq, vTemplateId, vData, vResult>>
  /\ UNCHANGED <<authVars, ckanVars, wsVars, aiVars>>

-----------------------------------------------------------------------------
(* Token issuance and the guard of /v1: src/security/oauth.js.               *)
(* A token is the value uuid() returned; an Authorization header and a scope *)
(* parameter are sequences of parts, a part being the text "Bearer ", a      *)
(* single space, a token or a word without spaces.                           *)

clients ==
  "ace-prototype-client" :>
    [clientSecret |-> "ace-prototype-secret",
     scopes |-> <<"datasets:write", "datasets:read", "items:write", "assets:write">>]

TOKEN_TTL_MS == 60 * 60 * 1000

\* scope.split(" "): the pieces between the spaces, one piece at least
RECURSIVE Split(_)
Split(parts) ==
  IF \A i \in 1..Len(parts) : parts[i] # " " THEN <<parts>>
  ELSE LET i == CHOOSE k \in 1..Len(parts) :
                  parts[k] = " " /\ \A j \in 1..(k - 1) : parts[j] # " "
       IN <<SubSeq(parts, 1, i - 1)>> \o Split(SubSeq(parts, i + 1, Len(parts)))

\* authHeader.replace("Bearer ", ""): the first occurrence removed
StripBearer(header) ==
  IF \A i \in 1..Len(header) : header[i] # "Bearer " THEN header
  ELSE LET i == CHOOSE k \in 1..Len(header) :
                  header[k] = "Bearer " /\ \A j \in 1..(k - 1) : header[j] # "Bearer "
       IN SubSeq(header, 1, i - 1) \o SubSeq(header, i + 1, Len(header))

\* uuid() in oauth.js: the n-th token handed out, never one handed out before
TokenText(n) == "token-" \o ToString(n)

\* tokens.has(token): the text is one token of the map
HasToken(map, token) == Len(token) = 1 /\ token[1] \in DOMAIN map

\* Expired for a guard that never expires a token
ExpiredNever(createdAt, now) == FALSE

\* Date.now() - tokenData.createdAt > TOKEN_TTL_MS
Expired(createdAt, now) == now - createdAt > TOKEN_TTL_MS

\* tokens.delete(token)
MapDelete(map, key) == [k \in DOMAIN map \ {key} |-> map[k]]

AuthRequest(op, clientId, clientSecret, scope, header) ==
  [op |-> op, clientId |-> clientId, clientSecret |-> clientSecret,
   scope |-> scope, header |-> header]

\* the answer of oauth.js: a status with an error or an access token, or the
\* call of next() with req.auth set
AuthResponse(status, error, token, next, auth) ==
  [status |-> status, error |-> error, token |-> token, next |-> next, auth |-> auth]

NoTokenData == [clientId |-> "", scope |-> <<>>, createdAt |-> 0]

AuthIdle ==
  /\ tokens = EmptyMap
  /\ clock = 0
  /\ ticks = 0
  /\ tokenSeq = 0
  /\ authReq = AuthRequest("none", "", "", <<>>, <<>>)
  /\ authRes = AuthResponse(0, "", <<>>, FALSE, NoTokenData)

\* POST /oauth/token with body {clientId, clientSecret, scope} ("" and <<>>
\* for a key the body does not have)
issueToken(clientId, clientSecret, scope) ==
  /\ authReq' = AuthRequest("token", clientId, clientSecret, scope, <<>>)
  /\ IF clientId \notin DOMAIN clients
        \/ clients[clientId].clientSecret # clientSecret
       THEN /\ authRes' = AuthResponse(401, "invalid_client", <<>>, FALSE, NoTokenData)
            /\ UNCHANGED <<tokens, tokenSeq>>
       ELSE LET token == TokenText(tokenSeq + 1)
                scopes == IF scope # <<>> THEN Split(scope)
                          ELSE [i \in 1..Len(clients[clientId].scopes) |->
                                  <<clients[clientId].scopes[i]>>]
                data == [clientId |-> clientId, scope |-> scopes, createdAt |-> clock]
            IN /\ tokenSeq < MaxTokens
               /\ tokenSeq' = tokenSeq + 1
               /\ tokens' = MapSet(tokens, token, data)
               /\ authRes' = AuthResponse(200, "", <<token>>, FALSE, data)
  /\ UNCHANGED <<clock, ticks, appVars, ckanVars, wsVars, aiVars>>

\* app.use("/v1", ensureAuthenticated) on a request with the header
ensureAuthenticated(header) ==
  /\ authReq' = AuthRequest("v1", "", "", <<>>, header)
  /\ LET token == StripBearer(header)
     IN IF token = <<>> \/ ~HasToken(tokens, token)
          THEN /\ authRes' = AuthResponse(401, "invalid_token", <<>>, FALSE, NoTokenData)
               /\ UNCHANGED tokens
          ELSE LET tokenData == tokens[token[1]]
               IN IF Expired(tokenData.createdAt, clock)
                    THEN /\ tokens' = MapDelete(tokens, token[1])
                         /\ authRes' = AuthResponse(401, "token_expired", <<>>,
                                                    FALSE, NoTokenData)
                    ELSE /\ authRes' = AuthResponse(0, "", <<>>, TRUE, tokenData)
                         /\ UNCHANGED tokens
  /\ UNCHANGED <<clock, ticks, tokenSeq, appVars, ckanVars, wsVars, aiVars>>

\* time passes between two requests
Tick(ms) ==
  /\ ticks < MaxTicks
  /\ ticks' = ticks + 1
  /\ clock' = clock + ms
  /\ UNCHANGED <<tokens, tokenSeq, authReq, authRes, appVars, ckanVars, wsVars, aiVars>>

\* the token requests of the model, <<clientId, clientSecret, scope>>: the
\* registered client with and without a scope, with a wrong secret and with
\* none, and a client that is not registered
TokenRequests ==
  {<<"ace-prototype-client", "ace-prototype-secret", <<>>>>,
   <<"ace-prototype-client", "ace-prototype-secret", <<"items:write", " ", "admin">>>>,
   <<"ace-prototype-client", "guess", <<>>>>,
   <<"ace-prototype-client", "", <<>>>>,
   <<"intruder", "ace-prototype-secret", <<>>>>,
   <<"", "", <<>>>>}

\* a text that uuid() never returned
ForgedToken == "forged"

\* the Authorization headers of the model: none, the scheme alone, and for
\* every token (issued, to be issued or forged) the header "Bearer <token>",
\* the token without a scheme and the token under another scheme
Headers ==
  {<<>>, <<"Bearer ">>}
  \cup UNION {{<<"Bearer ", t>>, <<t>>, <<"Basic ", t>>} :
                t \in {TokenText(n) : n \in 1..MaxTokens} \cup {ForgedToken}}

\* the steps of the clock: a millisecond and the lifetime of a token
Steps == {1, TOKEN_TTL_MS}

NextAuth ==
  \/ \E r \in TokenRequests : issueToken(r[1], r[2], r[3])
  \/ \E header \in Headers : ensureAuthenticated(header)
  \/ \E ms \in Steps : Tick(ms)

-----------------------------------------------------------------------------
(* CKAN adapter: src/integrations/ckan.js. The body CKAN sent is null (none, *)
(* or not JSON) or an object [success, error, result]; a key the object does *)
(* not have reads "absent".                                                  *)

\* json.error: undefined, null, a message text, or an object whose __type is
\* absent or a text
CkanError(kind, type) == [kind |-> kind, type |-> type]

NoCkanError == CkanError("undefined", "absent")

CkanJson(success, error, result) ==
  [kind |-> "object", success |-> success, error |-> error, result |-> result]

NoCkanJson == [kind |-> "null", success |-> "absent", error |-> NoCkanError,
               result |-> "absent"]

\* !error || !error.__type
NoErrorType(error) ==
  \/ error.kind \in {"undefined", "null"}
  \/ error.kind = "string"
  \/ error.type \in {"absent", ""}

\* mapErrorStatus that lets the response through as a success
mapErrorStatusOk(error) == 200

\* CkanAdapter.mapErrorStatus(error)
mapErrorStatus(error) ==
  IF NoErrorType(error) THEN 400
  ELSE IF error.type = "Authorization Error" THEN 403
  ELSE IF error.type = "Not Found Error" THEN 404
  ELSE 400

\* CkanAdapter.normalizeResponse(action, httpStatus, json); httpStatus 0
\* stands for a status that is not there
normalizeResponse(action, httpStatus, json) ==
  IF json.kind = "null"
    THEN [statusCode |-> IF httpStatus # 0 THEN httpStatus ELSE 502,
          body |-> [error |-> "No CKAN response", action |-> action]]
  ELSE IF json.success = "false"
    THEN [statusCode |-> mapErrorStatus(json.error),
          body |-> [error |-> IF json.error.kind \in {"undefined", "null"}
                                THEN "CKAN error" ELSE json.error,
                    action |-> action]]
  ELSE [statusCode |-> IF httpStatus >= 400 THEN httpStatus ELSE 200,
        body |-> IF json.result = "present" THEN "result" ELSE json]

CkanCall(action, baseUrl, httpStatus, json) ==
  [action |-> action, baseUrl |-> baseUrl, httpStatus |-> httpStatus, json |-> json]

NoCkanResult == [statusCode |-> 0, body |-> ""]

\* the CKAN errors of the model
CkanErrors ==
  {NoCkanError, CkanError("null", "absent"), CkanError("string", "absent")}
  \cup {CkanError("object", type) :
          type \in {"absent", "", "Authorization Error", "Not Found Error",
                    "Validation Error", "authorization error"}}

\* the bodies CKAN answers with
CkanJsons ==
  {NoCkanJson}
  \cup {CkanJson(success, error, result) :
          success \in {"true", "false", "absent"}, error \in CkanErrors,
          result \in {"absent", "present"}}

\* the HTTP statuses CKAN answers with
CkanStatuses == {200, 201, 400, 403, 404, 409, 500}

\* CkanAdapter.callAction(action, payload) once fetch answered: simulated when
\* CKAN_BASE_URL is not set, normalized otherwise
callAction ==
  /\ ckanResult.statusCode = 0
  /\ ckanResult' =
       IF ckanCall.baseUrl = ""
         THEN [statusCode |-> 202,
               body |-> [message |-> "CKAN_BASE_URL not configured. Action simulated for prototype.",
                         action |-> ckanCall.action]]
         ELSE normalizeResponse(ckanCall.action, ckanCall.httpStatus, ckanCall.json)
  /\ UNCHANGED <<ckanCall, appVars, authVars, wsVars, aiVars>>

CkanIdle ==
  /\ ckanCall = CkanCall("", "", 0, NoCkanJson)
  /\ ckanResult = NoCkanResult

-----------------------------------------------------------------------------
(* WebSocket relay: src/ws-server.js. A connection is the ws object of one   *)
(* client; store[modelId] is an array whose properties are named by row ids  *)
(* (a row id that is not an array index is a property all the same); a row  *)
(* is a function from keys to values. Model ids, row ids and keys of the     *)
(* model are not names of inherited properties.                              *)

Conns == 1..MaxConns

\* a message the server sends; a key a message type does not have is empty
WsMessage(type, modelId, users, items, edits, user) ==
  [type |-> type, modelId |-> modelId, users |-> users, items |-> items,
   edits |-> edits, user |-> user]

\* a message handled: its type, the connection it arrived on ("close" for
\* the close event) and its content
WsEvent(type, conn, modelId, user, edits) ==
  [type |-> type, conn |-> conn, modelId |-> modelId, user |-> user, edits |-> edits]

Edit(rowId, key, newValue) == [rowId |-> rowId, key |-> key, newValue |-> newValue]

\* the names of the array indices 0, 1, 2
IndexNames == <<"0", "1", "2">>

\* the array's length: one more than the largest index it has a row at
ArrayLength(arr) ==
  IF \A i \in 1..Len(IndexNames) : IndexNames[i] \notin DOMAIN arr THEN 0
  ELSE CHOOSE i \in 1..Len(IndexNames) :
         /\ IndexNames[i] \in DOMAIN arr
         /\ \A j \in (i + 1)..Len(IndexNames) : IndexNames[j] \notin DOMAIN arr

\* JSON.stringify(store[modelId] || []) as the client parses it: the
\* elements at the indices below the length, null for an index without a
\* row; a property that is not an index is not written
SnapshotItems(st, modelId) ==
  IF modelId \notin DOMAIN st THEN <<>>
  ELSE [i \in 1..ArrayLength(st[modelId]) |->
          IF IndexNames[i] \in DOMAIN st[modelId]
            THEN [null |-> FALSE, row |-> st[modelId][IndexNames[i]]]
            ELSE [null |-> TRUE, row |-> EmptyMap]]

\* presence[modelId] || []
PresenceOf(pr, modelId) == IF modelId \in DOMAIN pr THEN pr[modelId] ELSE {}

\* ApplyEdit that keeps the value a cell already has
ApplyEditFirstWins(arr, edit) ==
  LET row == IF edit.rowId \in DOMAIN arr THEN arr[edit.rowId] ELSE EmptyMap
  IN MapSet(arr, edit.rowId,
            IF edit.key \in DOMAIN row THEN row
            ELSE MapSet(row, edit.key, edit.newValue))

\* const row = store[modelId][edit.rowId] || {}; row[edit.key] =
\* edit.newValue; store[modelId][edit.rowId] = row
ApplyEdit(arr, edit) ==
  LET row == IF edit.rowId \in DOMAIN arr THEN arr[edit.rowId] ELSE EmptyMap
  IN MapSet(arr, edit.rowId, MapSet(row, edit.key, edit.newValue))

\* edits.forEach(...) on the array
RECURSIVE ApplyEdits(_, _)
ApplyEdits(arr, edits) ==
  IF edits = <<>> THEN arr
  ELSE ApplyEdits(ApplyEdit(arr, Head(edits)), Tail(edits))

\* broadcast(payload) after the event: every connection that is open gets
\* the payload, after the messages already sent to it in the event
Broadcast(conns, sent, payload) ==
  [c \in Conns |-> IF conns[c].state = "open" THEN Append(sent[c], payload)
                   ELSE sent[c]]

NothingSent == [c \in Conns |-> <<>>]

WsIdle ==
  /\ wsConns = [c \in Conns |-> [state |-> "idle", modelId |-> "", user |-> ""]]
  /\ wsStore = EmptyMap
  /\ wsPresence = EmptyMap
  /\ wsSent = NothingSent
  /\ wsEvent = WsEvent("none", 0, "", "", <<>>)
  /\ wsEvents = 0

\* wss.on("connection"): a client connected
WsConnect(c) ==
  /\ wsConns[c].state = "idle"
  /\ wsConns' = [wsConns EXCEPT ![c].state = "open"]
  /\ wsEvent' = WsEvent("connection", c, "", "", <<>>)
  /\ wsSent' = NothingSent
  /\ UNCHANGED <<wsStore, wsPresence, wsEvents>>
  /\ UNCHANGED <<appVars, authVars, ckanVars, aiVars>>

\* ws.on("message") with {type: "join", modelId, user} ("" for no user)
WsJoin(c, modelId, user) ==
  /\ wsConns[c].state = "open"
  /\ wsEvents < MaxEvents
  /\ wsEvents' = wsEvents + 1
  /\ wsEvent' = WsEvent("join", c, modelId, user, <<>>)
  /\ LET name == IF user # "" THEN user ELSE "anon"
         presence == MapSet(wsPresence, modelId,
                            PresenceOf(wsPresence, modelId) \cup {name})
         conns == [wsConns EXCEPT ![c].modelId = modelId, ![c].user = name]
         announced == Broadcast(conns, NothingSent,
                        WsMessage("presence", modelId, presence[modelId],
                                  <<>>, <<>>, ""))
     IN /\ wsConns' = conns
        /\ wsPresence' = presence
        /\ wsSent' = [announced EXCEPT ![c] =
                        Append(@, WsMessage("snapshot", modelId, presence[modelId],
                                            SnapshotItems(wsStore, modelId),
                                            <<>>, ""))]
  /\ UNCHANGED wsStore
  /\ UNCHANGED <<appVars, authVars, ckanVars, aiVars>>

\* ws.on("message") with {type: "patch", modelId, edits, user}
WsPatch(c, modelId, edits, user) ==
  /\ wsConns[c].state = "open"
  /\ wsEvents < MaxEvents
  /\ wsEvents' = wsEvents + 1
  /\ wsEvent' = WsEvent("patch", c, modelId, user, edits)
  /\ wsStore' = MapSet(wsStore, modelId,
                       ApplyEdits(IF modelId \in DOMAIN wsStore
                                    THEN wsStore[modelId] ELSE EmptyMap,
                                  edits))
  /\ wsSent' = Broadcast(wsConns, NothingSent,
                 WsMessage("patch", modelId, {}, <<>>, edits,
                           IF user # "" THEN user
                           ELSE IF wsConns[c].user # "" THEN wsConns[c].user
                           ELSE "anon"))
  /\ UNCHANGED <<wsConns, wsPresence>>
  /\ UNCHANGED <<appVars, authVars, ckanVars, aiVars>>

\* ws.on("close")
WsClose(c) ==
  /\ wsConns[c].state = "open"
  /\ wsConns' = [wsConns EXCEPT ![c].state = "closed"]
  /\ wsEvent' = WsEvent("close", c, wsConns[c].modelId, wsConns[c].user, <<>>)
  /\ IF /\ wsConns[c].modelId # ""
        /\ wsConns[c].user # ""
        /\ wsConns[c].modelId \in DOMAIN wsPresence
       THEN /\ wsPresence' = [wsPresence EXCEPT ![wsConns[c].modelId] =
                                @ \ {wsConns[c].user}]
            /\ wsSent' = Broadcast(wsConns', NothingSent,
                           WsMessage("presence", wsConns[c].modelId,
                                     wsPresence'[wsConns[c].modelId],
                                     <<>>, <<>>, ""))
       ELSE /\ wsSent' = NothingSent
            /\ UNCHANGED wsPresence
  /\ UNCHANGED <<wsStore, wsEvents>>
  /\ UNCHANGED <<appVars, authVars, ckanVars, aiVars>>

\* the joins of the model, <<modelId, user>>
JoinRequests == {<<"city", "ann">>, <<"parks", "ann">>, <<"city", "">>}

\* the patches of the model, <<modelId, edits, user>>: an edit of a cell, two
\* edits of that cell in one message, an edit that leaves index 0 without a
\* row, and an edit of a row whose id is not an array index
PatchRequests ==
  {<<"city", <<Edit("0", "name", "a")>>, "">>,
   <<"city", <<Edit("0", "name", "b"), Edit("0", "name", "c")>>, "bob">>,
   <<"parks", <<Edit("1", "name", "a")>>, "">>,
   <<"city", <<Edit("fac-001", "name", "a")>>, "">>}

NextWs ==
  \/ \E c \in Conns : WsConnect(c)
  \/ \E c \in Conns, r \in JoinRequests : WsJoin(c, r[1], r[2])
  \/ \E c \in Conns, r \in PatchRequests : WsPatch(c, r[1], r[2], r[3])
  \/ \E c \in Conns : WsClose(c)

-----------------------------------------------------------------------------
(* AI schema inference: ai-schema-generator.js *)

\* options.maxRetries of the calls of the model
MaxRetries == 2

Providers == {"gpt-4o-mini", "gpt-4o", "gpt-4o-strict", "gemini"}

AiField(fieldKey, label, type, required) ==
  [fieldKey |-> fieldKey, label |-> label, type |-> type, required |-> required]

Schema(id, label, fields) ==
  [id |-> id, label |-> label, fields |-> fields]

\* a column of the analysis; gifMatch is the fieldKey of the GIF mapping of
\* the header, "" when the header has none
Column(header, inferredType, gifMatch) ==
  [header |-> header, inferredType |-> inferredType, gifMatch |-> gifMatch]

\* the analyses parseExcelFile hands over: a workbook with a GIF column and
\* a free column, and one whose name has no word character
Analyses ==
  {[filename |-> "Parks 2024.xlsx",
    columns |-> <<Column("ID", "string", "identifier"),
                  Column("Park Name", "string", "")>>],
   [filename |-> "!!!.xlsx",
    columns |-> <<Column("2024", "number", "")>>]}

\* filename.replace(/\.[^.]+$/, "")
StripExtension(filename) ==
  CASE filename = "Parks 2024.xlsx" -> "Parks 2024"
    [] filename = "!!!.xlsx" -> "!!!"
    [] OTHER -> filename

\* .toLowerCase().replace(/[^\w\s-]/g, "").replace(/\s+/g, "-").slice(0, 50)
Slug(name) ==
  CASE name = "Parks 2024" -> "parks-2024"
    [] name = "!!!" -> ""
    [] OTHER -> name

sanitizeFieldKey(header) ==
  CASE header = "Park Name" -> "parkName"
    [] header = "2024" -> "_2024"
    [] header = "ID" -> "iD"
    [] header = "" -> "field"
    [] OTHER -> header

generateRuleBasedSchema(analysis) ==
  LET id == Slug(StripExtension(analysis.filename))
      field(col) ==
        AiField(IF col.gifMatch # "" THEN col.gifMatch
              ELSE sanitizeFieldKey(col.header),
              col.header, col.inferredType, "false")
  IN Schema(IF id # "" THEN id ELSE "imported-schema",
            StripExtension(analysis.filename),
            [i \in 1..Len(analysis.columns) |-> field(analysis.columns[i])])

\* what the model answers: the JSON values of the answers, a property that
\* is missing or not of its type being ""
GoodSchema ==
  Schema("parks", "Parks", <<AiField("name", "Name", "string", "true")>>)

LooseSchema ==
  Schema("parks", "Parks",
         <<AiField("", "", "text", "other"),
           AiField("field1", "Name", "number", "false")>>)

NoFieldsSchema == Schema("parks", "Parks", <<>>)

NoIdSchema == Schema("", "Parks", <<AiField("name", "Name", "string", "true")>>)

\* an answer of client.chat.completions.create: it throws, or returns a text
\* that is the JSON itself ("none"), the JSON in a fenced block ("fence") or
\* within prose ("prose"), or a text without JSON ("garbage")
AiResponse(kind, wrap, json) ==
  [kind |-> kind, wrap |-> wrap, json |-> json]

NoAiResponse == AiResponse("none", "", NoFieldsSchema)

Responses ==
  {AiResponse("throws", "", NoFieldsSchema),
   AiResponse("text", "garbage", NoFieldsSchema),
   AiResponse("text", "none", GoodSchema),
   AiResponse("text", "fence", LooseSchema),
   AiResponse("text", "prose", NoFieldsSchema),
   AiResponse("text", "none", NoIdSchema)}

\* parseAIResponse: ok is FALSE when it throws
parseAIResponse(response) ==
  [ok |-> response.wrap \in {"none", "fence", "prose"}, value |-> response.json]

validTypes ==
  {"string", "number", "date", "boolean", "latitude", "longitude",
   "controlledVocabulary"}

\* the while loop of validateSchema: the first of fieldKey, fieldKey_1,
\* fieldKey_2, ... that is not in seenKeys
RECURSIVE UniqueKey(_, _, _)
UniqueKey(fieldKey, counter, seenKeys) ==
  LET key == IF counter = 0 THEN fieldKey
             ELSE fieldKey \o "_" \o ToString(counter)
  IN IF key \in seenKeys THEN UniqueKey(fieldKey, counter + 1, seenKeys)
     ELSE key

\* schema.fields.map of validateSchema, field by field from the left
RECURSIVE FixFields(_, _, _)
FixFields(fields, index, seenKeys) ==
  IF index > Len(fields) THEN <<>>
  ELSE LET field == fields[index]
           named == IF field.fieldKey = "" THEN "field" \o ToString(index)
                    ELSE field.fieldKey
           key == UniqueKey(named, 0, seenKeys)
       IN <<AiField(key,
                  IF field.label = "" THEN key ELSE field.label,
                  IF field.type \in validTypes THEN field.type ELSE "string",
                  IF field.required \in {"true", "false"} THEN field.required
                  ELSE "false")>>
          \o FixFields(fields, index + 1, seenKeys \union {key})

\* validateSchema: ok is FALSE when it throws
validateSchema(schema) ==
  IF schema.id = "" \/ schema.label = "" \/ Len(schema.fields) = 0
    THEN [ok |-> FALSE, value |-> schema]
    ELSE [ok |-> TRUE,
          value |-> Schema(schema.id, schema.label,
                           FixFields(schema.fields, 1, {}))]

\* callOpenAI: the options of the request, which the strict parameter does
\* not enter; messages, temperature and max_tokens are the same in every call
RequestOptions(model, strict) ==
  [model |-> model,
   response_format |-> IF model \in {"gpt-4o-mini", "gpt-4o"}
                         THEN "json_object" ELSE ""]

\* callOpenAI: without an API key it throws before a request is made
RequestSent(apiKey) == apiKey

\* the body of the try block: the validated schema of the answer, ok FALSE
\* when callOpenAI, parseAIResponse or validateSchema throws
Attempted(apiKey, response) ==
  IF ~RequestSent(apiKey) \/ response.kind = "throws"
    THEN [ok |-> FALSE, value |-> response.json]
  ELSE IF ~parseAIResponse(response).ok
    THEN [ok |-> FALSE, value |-> response.json]
  ELSE validateSchema(parseAIResponse(response).value)

\* an attempt of the loop: the model and the strict flag callOpenAI was
\* called with, whether a request went out, and the answer
Attempt(model, strict, sent, response) ==
  [model |-> model, strict |-> strict, sent |-> sent,
   request |-> RequestOptions(model, strict), response |-> response]

\* the condition of the catch block under which the model is escalated
EscalatesAlways(attempt, maxRetries, model, escalation) ==
  /\ model = "gpt-4o-mini"
  /\ escalation

Escalates(attempt, maxRetries, model, escalation) ==
  /\ attempt = maxRetries - 1
  /\ model = "gpt-4o-mini"
  /\ escalation

AiResult(schema, provider, strict) ==
  [schema |-> schema, aiGenerated |-> TRUE, provider |-> provider,
   strict |-> strict]

RuleBasedResult(analysis) ==
  [schema |-> generateRuleBasedSchema(analysis), aiGenerated |-> FALSE,
   provider |-> "rule-based"]

AiCall(state, provider, escalation, apiKey, forceStrict, maxRetries, analysis, attempt, model, useStrict, attempts, result) ==
  [state |-> state, provider |-> provider, escalation |-> escalation,
   apiKey |-> apiKey, forceStrict |-> forceStrict, maxRetries |-> maxRetries,
   analysis |-> analysis, attempt |-> attempt, model |-> model,
   useStrict |-> useStrict, attempts |-> attempts, result |-> result]

AiIdle ==
  /\ aiCall = AiCall("idle", "gpt-4o-mini", TRUE, FALSE, FALSE, 0,
                     CHOOSE a \in Analyses : a.filename = "!!!.xlsx",
                     0, "", FALSE, <<>>, <<>>)

\* generateSchemaWithAI up to the first await: PROVIDER,
\* ENABLE_STRICT_ESCALATION and OPENAI_API_KEY are the environment of the
\* process, forceStrict and maxRetries the options of the call
generateSchemaWithAI(provider, escalation, apiKey, forceStrict, maxRetries, analysis) ==
  /\ aiCall.state = "idle"
  /\ \E model \in {IF provider = "gpt-4o-strict" THEN "gpt-4o"
                   ELSE IF provider = "gemini" THEN "" ELSE provider} :
       \E useStrict \in {forceStrict \/ provider = "gpt-4o-strict"} :
         aiCall' =
           IF provider = "gemini"
             THEN AiCall("returned", provider, escalation, apiKey, forceStrict,
                         maxRetries, analysis, 0, model, useStrict, <<>>,
                         <<RuleBasedResult(analysis)>>)
             ELSE AiCall("running", provider, escalation, apiKey, forceStrict,
                         maxRetries, analysis, 0, model, useStrict, <<>>, <<>>)
  /\ UNCHANGED <<appVars, authVars, ckanVars, wsVars>>

\* one pass of the for loop: the awaited call settles with the response; a
\* success returns, a failure runs the catch block and, after the last pass,
\* the fallback
AiAttempt(response) ==
  /\ aiCall.state = "running"
  /\ aiCall.attempt <= aiCall.maxRetries
  /\ \E sent \in {RequestSent(aiCall.apiKey)} :
     \E answer \in {IF sent THEN response ELSE NoAiResponse} :
     \E tried \in {Attempted(aiCall.apiKey, answer)} :
     \E attempts \in {Append(aiCall.attempts,
                             Attempt(aiCall.model, aiCall.useStrict, sent,
                                     answer))} :
       aiCall' =
         IF tried.ok
           THEN [aiCall EXCEPT
                   !.state = "returned",
                   !.attempts = attempts,
                   !.result = <<AiResult(tried.value, aiCall.model,
                                         aiCall.useStrict)>>]
         ELSE LET escalate == Escalates(aiCall.attempt, aiCall.maxRetries,
                                        aiCall.model, aiCall.escalation)
                  last == aiCall.attempt + 1 > aiCall.maxRetries
              IN [aiCall EXCEPT
                    !.state = IF last THEN "returned" ELSE "running",
                    !.attempts = attempts,
                    !.attempt = aiCall.attempt + 1,
                    !.model = IF escalate THEN "gpt-4o" ELSE aiCall.model,
                    !.useStrict = IF escalate THEN TRUE ELSE aiCall.useStrict,
                    !.result = IF last
                                 THEN <<RuleBasedResult(aiCall.analysis)>>
                                 ELSE <<>>]
  /\ UNCHANGED <<appVars, authVars, ckanVars, wsVars>>

NextAi ==
  \/ \E provider \in Providers, escalation \in BOOLEAN, apiKey \in BOOLEAN,
        forceStrict \in BOOLEAN, maxRetries \in 0..MaxRetries,
        analysis \in Analyses :
       generateSchemaWithAI(provider, escalation, apiKey, forceStrict,
                            maxRetries, analysis)
  \/ \E response \in Responses : AiAttempt(response)

-----------------------------------------------------------------------------
(* Submitted records *)

\* the five characters of the facility name of the README example, by code point
ExampleName == <<"U+4E2D", "U+592E", "U+56F3", "U+66F8", "U+9928">>

\* 35.6895 and 139.6917
ExampleLatitude == Num(356895000)
ExampleLongitude == Num(1396917000)

\* README, quick start step 3: the body of the item creation
ExampleRecord ==
  ("localGovernmentCode" :> Str(<<"1", "3", "1", "0", "1", "6">>))
  @@ ("identifier" :> Str(<<"f", "a", "c", "-", "0", "0", "1">>))
  @@ ("name" :> Str(ExampleName))
  @@ ("facilityType" :> Str(<<"l", "i", "b", "r", "a", "r", "y">>))
  @@ ("latitude" :> ExampleLatitude)
  @@ ("longitude" :> ExampleLongitude)
  @@ ("datasetUpdatedAt" :> Str(<<"2", "0", "2", "4", "-", "0", "5", "-", "0", "1">>))

\* obj with key set to value; setting undefined removes the key
SetKey(obj, key, value) ==
  IF value = Undefined THEN [k \in DOMAIN obj \ {key} |-> obj[k]]
  ELSE [k \in DOMAIN obj \cup {key} |-> IF k = key THEN value ELSE obj[k]]

\* a record every field of public-facilities accepts
FacilityRecord == SetKey(ExampleRecord, "address", Str(<<"1", "-", "1", " ", "C", "h", "u", "o">>))

\* a record every field of aed-locations accepts
AedRecord ==
  ("localGovernmentCode" :> Str(<<"1", "3", "1", "0", "1", "6">>))
  @@ ("identifier" :> Str(<<"a", "e", "d", "-", "0", "0", "1">>))
  @@ ("name" :> Str(ExampleName))
  @@ ("address" :> Str(<<"1", "-", "1", " ", "C", "h", "u", "o">>))
  @@ ("installationPlace" :> Str(<<"L", "o", "b", "b", "y">>))
  @@ ("pediatricSupport" :> Str(<<"y", "e", "s">>))
  @@ ("latitude" :> ExampleLatitude)
  @@ ("longitude" :> ExampleLongitude)
  @@ ("datasetUpdatedAt" :> Str(<<"2", "0", "2", "4", "-", "0", "5", "-", "0", "1">>))

GeoPointRecord ==
  ("name" :> Str(ExampleName))
  @@ ("latitude" :> ExampleLatitude)
  @@ ("longitude" :> ExampleLongitude)

SurveyPointRecord ==
  ("surveyor" :> Str(<<"L", "o", "b", "b", "y">>))
  @@ ("lat" :> ExampleLatitude)
  @@ ("lng" :> ExampleLongitude)

MeterReadingRecord == ("count" :> Num(5 * Scale))

\* a record that suits the template of the id, to start from
BaseRecord(id) ==
  CASE id = "aed-locations" -> AedRecord
    [] id = "geo-points" -> GeoPointRecord
    [] id = "survey-points" -> SurveyPointRecord
    [] id = "meter-readings" -> MeterReadingRecord
    [] OTHER -> FacilityRecord

\* the values a submitted record tries for a coordinate: the zeros, the
\* bounds and the first value beyond each (90.0001, 180.0001), 120, 1e-7,
\* Infinity, a string, and the key left out
CoordinateValues ==
  {Undefined, Num(0), NegZero, Num(90 * Scale), Num(90 * Scale + 1000),
   Num(0 - 90 * Scale), Num(120 * Scale), Num(180 * Scale),
   Num(180 * Scale + 1000), Num(1), Infinity(1), Str(<<"a", "b", "c">>)}

\* the values a submitted record tries for a field of the type
EditValues(field) ==
  CASE field.type \in {"latitude", "longitude"} -> CoordinateValues
    [] field.type = "number" ->
         {Undefined, Num(0), Num(95 * Scale), Infinity(1), Str(<<"9", "5">>)}
    [] field.type = "controlledVocabulary" ->
         {Undefined, Str(<<"z", "z", "z">>), Num(Scale)}
    [] field.type = "date" ->
         {Undefined, Str(<<>>), Str(<<"2", "0", "2", "4", "-", "0", "2", "-", "3", "0">>), Str(<<"2", "0", "2", "4", "-", "1", "3", "-", "0", "1">>)}
    [] field.type = "boolean" -> {Undefined, Bool(TRUE), Str(<<"n", "o">>)}
    [] OTHER -> {Undefined, Str(<<>>), Str(<<"!">>), Num(Scale)}

\* one change to a record: a field of the template set to a value to try, or
\* a key the template does not define
Edits(template) ==
  UNION {{<<template.fields[i].fieldKey, v>> : v \in EditValues(template.fields[i])} :
           i \in 1..Len(template.fields)}
  \cup {<<"extra", Str(<<"x">>)>>}

\* the records at most n edits away from base
RECURSIVE Perturbed(_, _, _)
Perturbed(base, edits, n) ==
  IF n = 0 THEN {base}
  ELSE LET prev == Perturbed(base, edits, n - 1)
       IN prev \cup {SetKey(r, e[1], e[2]) : r \in prev, e \in edits}

-----------------------------------------------------------------------------
(* The program: the handlers in any order *)

\* the item creations of the model, <<model id, body>>: per template a record
\* it accepts, the README example, records with a coordinate missing, with the
\* zero pair, with a key no template defines, with an empty mandatory field
\* and with a value for a field keyed id, and one record each for an id that is a model only after an apply
\* and for an id nothing is registered under
ItemRequests ==
  {<<"public-facilities", FacilityRecord>>,
   <<"public-facilities", ExampleRecord>>,
   <<"public-facilities", SetKey(FacilityRecord, "latitude", Undefined)>>,
   <<"public-facilities",
     SetKey(SetKey(FacilityRecord, "latitude", Num(0)), "longitude", NegZero)>>,
   <<"aed-locations", AedRecord>>,
   <<"geo-points", GeoPointRecord>>,
   <<"geo-points", SetKey(GeoPointRecord, "extra", Str(<<"x">>))>>,
   <<"geo-points", SetKey(GeoPointRecord, "name", Str(<<>>))>>,
   <<"geo-points", SetKey(GeoPointRecord, "id", Str(<<"g", "p", "-", "1">>))>>,
   <<"meter-readings", MeterReadingRecord>>,
   <<"city-model", FacilityRecord>>,
   <<"no-such-model", FacilityRecord>>}

\* the applies of the model, <<template id, body.modelId, body.title>>: the
\* README quick start, a custom model id, and a template that does not exist
ApplyRequests ==
  {<<"public-facilities", "", "City Public Facilities">>,
   <<"public-facilities", "city-model", "">>,
   <<"no-such-model", "", "">>}

\* the model ids whose schema is read: a template id, an id that is a model
\* only after an apply, and an id nothing is registered under
SchemaRequests == {"public-facilities", "city-model", "no-such-model"}

\* the publishes of the model, <<model id, item id>>: the first item stored,
\* under its model and under a model with no items, and a model id nothing
\* is registered under
PublishRequests ==
  {<<"public-facilities", Uuid(1)>>, <<"aed-locations", Uuid(1)>>,
   <<"no-such-model", Uuid(1)>>}

\* the schemas a client submits to the confirm endpoint
SubmittedSchemas ==
  {GeoPointsSchema, MeterReadingsSchema, DuplicateSchema, BadIdSchema}

Init ==
  /\ templates = BuiltInTemplates
  /\ models = EmptyMap
  /\ records = EmptyMap
  /\ uuidSeq = 0
  /\ lastReq = NoRequest
  /\ lastRes = NoResponse
  /\ vTemplateId = ""
  /\ vData = EmptyObject
  /\ vResult = NotRun
  /\ AuthIdle
  /\ WsIdle
  /\ AiIdle
  /\ CkanIdle

Next ==
  \/ \E r \in ApplyRequests : ApplyTemplate(r[1], r[2], r[3])
  \/ \E r \in ItemRequests : CreateItem(r[1], r[2])
  \/ \E id \in {"public-facilities"} : ListItems(id)
  \/ ListTemplates
  \/ \E r \in PublishRequests : PublishOrion(r[1], r[2])
  \/ \E id \in SchemaRequests : GetSchema(id)
  \/ \E schema \in SubmittedSchemas : Confirm(schema)

Spec == Init /\ [][Next]_vars

\* the schemas submitted to the confirm endpoint when the registry is taken
\* on its own
RegistrySchemas == SubmittedSchemas \cup {SurveyPointsSchema, TaggedItemsSchema}

NextRegistry ==
  \/ \E schema \in RegistrySchemas : Confirm(schema)
  \/ ListTemplates
  \/ \E r \in ApplyRequests : ApplyTemplate(r[1], r[2], r[3])
  \/ \E id \in SchemaRequests \cup {"tagged-items"} : GetSchema(id)

\* the registry and the handlers that read it on their own
SpecRegistry == Init /\ [][NextRegistry]_vars

\* the adapter on its own: one call of callAction on an answer of CKAN
InitCkan ==
  /\ templates = BuiltInTemplates
  /\ models = EmptyMap
  /\ records = EmptyMap
  /\ uuidSeq = 0
  /\ lastReq = NoRequest
  /\ lastRes = NoResponse
  /\ vTemplateId = ""
  /\ vData = EmptyObject
  /\ vResult = NotRun
  /\ AuthIdle
  /\ WsIdle
  /\ AiIdle
  /\ ckanCall \in {CkanCall(action, baseUrl, httpStatus, json) :
                     action \in {"package_create", "resource_create"},
                     baseUrl \in {"", "http://ckan"},
                     httpStatus \in CkanStatuses, json \in CkanJsons}
  /\ ckanResult = NoCkanResult

NextCkan == callAction

SpecCkan == InitCkan /\ [][NextCkan]_vars

\* the WebSocket relay on its own
SpecWs == Init /\ [][NextWs]_vars

\* the schema generator alone
SpecAi == Init /\ [][NextAi]_vars

\* token issuance and the guard on their own
SpecAuth == Init /\ [][NextAuth]_vars

-----------------------------------------------------------------------------
(* The validator on its own: one call of validateItemAgainstTemplate on a    *)
(* registry the program can hold and a record a client can submit.           *)

\* the registry after the confirm endpoint accepted the first n schemas
RECURSIVE RegistryAfter(_, _)
RegistryAfter(schemas, n) ==
  IF n = 0 THEN BuiltInTemplates
  ELSE addTemplate(RegistryAfter(schemas, n - 1), ConvertSchema(schemas[n]))

AcceptedSchemas == <<GeoPointsSchema, SurveyPointsSchema, MeterReadingsSchema>>

FullRegistry == RegistryAfter(AcceptedSchemas, Len(AcceptedSchemas))

\* the records the validator is run on for a template id
ValidatorInputs(tpls, id) ==
  IF HasTemplate(tpls, id)
    THEN Perturbed(BaseRecord(id), Edits(getTemplateById(tpls, id)), MaxEdits)
    ELSE {BaseRecord(id), ExampleRecord}

InitValidator ==
  /\ templates = FullRegistry
  /\ models = EmptyMap
  /\ records = EmptyMap
  /\ uuidSeq = 0
  /\ lastReq = NoRequest
  /\ lastRes = NoResponse
  /\ vTemplateId \in TemplateIds(FullRegistry) \cup {"city-model"}
  /\ vData \in ValidatorInputs(FullRegistry, vTemplateId)
  /\ vResult = NotRun
  /\ AuthIdle
  /\ WsIdle
  /\ AiIdle
  /\ CkanIdle

Validate ==
  /\ vResult = NotRun
  /\ vResult' = validateItemAgainstTemplate(templates, vTemplateId, vData)
  /\ UNCHANGED <<templates, models, records, uuidSeq, lastReq, lastRes,
                 vTemplateId, vData>>
  /\ UNCHANGED <<authVars, ckanVars, wsVars, aiVars>>

NextValidator == Validate

SpecValidator == InitValidator /\ [][NextValidator]_vars

-----------------------------------------------------------------------------
(* Properties of the record store and the registry, under Spec *)

FieldKeys(template) == {template.fields[i].fieldKey : i \in 1..Len(template.fields)}

MandatoryKeys(template) ==
  {template.fields[i].fieldKey :
     i \in {j \in 1..Len(template.fields) :
              template.fields[j].mandatoryMark = MandatoryMark}}

\* C1: every record stored under the id of a template T has, apart from id,
\* only keys of T's field list, and carries every field T marks mandatory
\* with a value that is not the empty string; records are stored under
\* template ids alone.
C1_StoredRecordsConform ==
  \A id \in DOMAIN records :
    \A i \in 1..Len(records[id]) :
      /\ HasTemplate(templates, id)
      /\ LET T == getTemplateById(templates, id)
             item == records[id][i]
         IN /\ (DOMAIN item \ {"id"}) \subseteq FieldKeys(T)
            /\ \A key \in MandatoryKeys(T) :
                 /\ key \in DOMAIN item
                 /\ item[key] # Undefined
                 /\ item[key] # Str(<<>>)

\* C1 witness: an item was just stored from a body that carried a key its
\* template does not define.
C1_Witness ==
  /\ lastReq.op = "createItem"
  /\ lastRes.status = 201
  /\ "extra" \in DOMAIN vData
  /\ Len(records[lastReq.id]) >= 1

\* C5 (as claimed): the README example record posted to public-facilities is
\* answered 201 with an item that carries a generated id and is stored.
C5_ExampleStored ==
  (/\ lastReq.op = "createItem"
   /\ lastReq.id = "public-facilities"
   /\ vData = ExampleRecord)
  => /\ lastRes.status = 201
     /\ vResult.outcome = "ok"
     /\ "id" \in DOMAIN lastRes.item
     /\ lastRes.item \in Range(records["public-facilities"])

IdsDistinct(tpls) ==
  \A i, j \in 1..Len(tpls) : tpls[i].id = tpls[j].id => i = j

\* C8: the ids of the registry are pairwise distinct in every state, and a
\* confirm request whose schema passes confirmSchema and whose id is already
\* registered is answered 409 and leaves the registry as it was.
C8_DuplicateIdRejected ==
  /\ [](IdsDistinct(templates))
  /\ [][(/\ lastReq'.op = "confirm"
         /\ confirmSchema(lastReq'.schema)
         /\ lastReq'.schema.id \in TemplateIds(templates))
        => (templates' = templates /\ lastRes'.status = 409)]_vars

\* C8 witness: a confirm request was answered 409 for an id of the registry.
C8_Witness ==
  /\ lastReq.op = "confirm"
  /\ lastRes.status = 409
  /\ lastReq.schema.id \in TemplateIds(templates)

-----------------------------------------------------------------------------
(* Properties of the validator, under SpecValidator *)

Ran == vResult.outcome # "none"

\* the template of the run, where the id is registered
RunTemplate == getTemplateById(templates, vTemplateId)

Errors == Range(vResult.errors)

\* the error is a type/format error attributed to the field key
HasPathError(key) == \E e \in Errors : e.prefixed /\ e.path = key

\* the error list names the field key: as the path of a type/format error or
\* as the field of a mandatory-mark error
Names(key) ==
  \E e \in Errors : (e.prefixed /\ e.path = key) \/ (~e.prefixed /\ e.arg = <<key>>)

PairMessage == "latitude and longitude must be provided together"
MandatoryMessage == "${fieldKey} is required (standard dataset mark)"
ZeroMessage == "coordinates cannot both be zero (invalid GIF location)"

Supplied(key) == Get(vData, key) # Undefined

DefinesCoordinates(template) == {"latitude", "longitude"} \subseteq FieldKeys(template)

ExactlyOneCoordinate ==
  /\ Ran /\ HasTemplate(templates, vTemplateId)
  /\ DefinesCoordinates(RunTemplate)
  /\ Supplied("latitude") # Supplied("longitude")

\* no field of the record raises a type error: a value of the wrong type, a
\* required field left out, a value outside its vocabulary
NoTypeError ==
  \A i \in 1..Len(RunTemplate.fields) :
    LET f == RunTemplate.fields[i]
        v == Get(vData, f.fieldKey)
    IN /\ (v = Undefined => ~f.required)
       /\ (v # Undefined =>
             CASE f.type \in {"latitude", "longitude", "number"} -> IsNumber(v)
               [] f.type = "boolean" -> v.k = "boolean"
               [] f.type = "controlledVocabulary" ->
                    IsString(v) /\ v.s \in Range(f.options.values)
               [] OTHER -> IsString(v))

\* C2 (as claimed): a record that supplies exactly one of latitude and
\* longitude to a template that defines both fails with an error whose path
\* is latitude.
C2_PairAlwaysLatitudeError ==
  ExactlyOneCoordinate => (vResult.outcome = "errors" /\ HasPathError("latitude"))

\* C2 (amended): such a record is never accepted; the returned error list
\* holds an error whose path is latitude when no field of the record raises a
\* type error, and when latitude is the coordinate left out and is required.
C2_PairNeverAccepted ==
  ExactlyOneCoordinate =>
    /\ vResult.outcome # "ok"
    /\ (vResult.outcome = "errors" /\ NoTypeError) => HasPathError("latitude")
    /\ (/\ vResult.outcome = "errors"
        /\ ~Supplied("latitude")
        /\ ShapeField(RunTemplate, "latitude").required) => HasPathError("latitude")

\* C2 witness: longitude alone was left out of a record whose fields are
\* otherwise valid, and the pair error on the path latitude came back.
C2_Witness ==
  /\ ExactlyOneCoordinate
  /\ Supplied("latitude") /\ NoTypeError
  /\ \E e \in Errors : e.path = "latitude" /\ e.message = PairMessage

\* a value the field accepts, by the rules of the type/format pass
TypeCorrect(f, v) ==
  /\ f.pattern # NoPattern => (IsString(v) /\ RegexTest(f.pattern, v.s))
  /\ CASE f.type \in {"latitude", "longitude"} ->
            /\ v.k = "number"
            /\ Abs(v.n) <= (IF f.fieldKey = "latitude" THEN 90 ELSE 180) * Scale
            /\ (Abs(v.n) = 0 \/ Abs(v.n) >= 10)
       [] f.type = "number" -> v.k = "number"
       [] f.type = "boolean" -> v.k = "boolean"
       [] f.type = "controlledVocabulary" ->
            f.options.defined /\ IsString(v) /\ v.s \in Range(f.options.values)
       [] f.type = "date" -> IsString(v) /\ dateRegex(v.s)
       [] OTHER -> IsString(v)

IsMandatory(f) == f.mandatoryMark = MandatoryMark

\* every mandatory field is present, non-empty, type-correct and
\* pattern-compliant
MandatoryFieldsGood ==
  \A i \in 1..Len(RunTemplate.fields) :
    LET f == RunTemplate.fields[i]
        v == Get(vData, f.fieldKey)
    IN IsMandatory(f) => (v # Undefined /\ v # Str(<<>>) /\ TypeCorrect(f, v))

\* every other field is left out if it is not required, or type-correct and
\* pattern-compliant
OtherFieldsGood ==
  \A i \in 1..Len(RunTemplate.fields) :
    LET f == RunTemplate.fields[i]
        v == Get(vData, f.fieldKey)
    IN ~IsMandatory(f) =>
         IF v = Undefined THEN ~f.required ELSE TypeCorrect(f, v)

\* the schema of the template can be built and run: no field other than a
\* string or a date carries a pattern, and every vocabulary field has options
SchemaBuilds(template) ==
  \A i \in 1..Len(template.fields) :
    LET f == template.fields[i]
    IN /\ f.pattern # NoPattern => f.type \in {"string", "date"}
       /\ f.type = "controlledVocabulary" => f.options.defined

\* the values under the keys latitude and longitude, when the template
\* defines the keys: both left out, or both finite numbers within 90 and 180
\* that are not both zero
CoordinatePairGood ==
  LET lat == IF "latitude" \in FieldKeys(RunTemplate)
               THEN Get(vData, "latitude") ELSE Undefined
      lon == IF "longitude" \in FieldKeys(RunTemplate)
               THEN Get(vData, "longitude") ELSE Undefined
  IN \/ lat = Undefined /\ lon = Undefined
     \/ /\ lat.k = "number" /\ lon.k = "number"
        /\ Abs(lat.n) <= 90 * Scale /\ Abs(lon.n) <= 180 * Scale
        /\ ~(lat.n = 0 /\ lon.n = 0)

\* C3 (as claimed): a record whose mandatory fields are all present,
\* non-empty, type-correct and pattern-compliant validates successfully.
C3_MandatoryGoodSucceeds ==
  (Ran /\ HasTemplate(templates, vTemplateId) /\ MandatoryFieldsGood)
    => vResult.outcome = "ok"

\* C3 (amended): such a record validates successfully when, besides, its
\* other fields are each left out though not required or type-correct and
\* pattern-compliant, its latitude and longitude are both left out or both
\* finite, within 90 and 180 and not both zero, and the template puts
\* patterns on string and date fields alone and gives every vocabulary field
\* its options. A coordinate is type-correct within the bound the type pass
\* applies: 90 under the key latitude, 180 under any other key.
C3_AllGoodSucceeds ==
  (/\ Ran /\ HasTemplate(templates, vTemplateId)
   /\ SchemaBuilds(RunTemplate)
   /\ MandatoryFieldsGood /\ OtherFieldsGood /\ CoordinatePairGood)
    => vResult.outcome = "ok"

\* C3 witness: a record with latitude 90 and longitude 180, the bounds
\* themselves, was accepted by public-facilities.
C3_Witness ==
  /\ Ran /\ vTemplateId = "public-facilities"
  /\ Get(vData, "latitude") = Num(90 * Scale)
  /\ Get(vData, "longitude") = Num(180 * Scale)
  /\ vResult.outcome = "ok"

\* the mandatory fields the record leaves out or leaves empty
MissingKeys ==
  {key \in MandatoryKeys(RunTemplate) :
     Get(vData, key) = Undefined \/ Get(vData, key) = Str(<<>>)}

MissingCase == Ran /\ HasTemplate(templates, vTemplateId) /\ MissingKeys # {}

\* C4 (as claimed): a record that leaves out or leaves empty a mandatory
\* field fails, and the error list names every such field.
C4_MissingAlwaysNamed ==
  MissingCase => (vResult.outcome = "errors" /\ \A key \in MissingKeys : Names(key))

\* C4 (amended): such a record is never accepted; the returned error list
\* names every mandatory field that is left out and required, and it names
\* every mandatory field left out or left empty when the type/format pass
\* reported nothing (the list is then the list of the mandatory-mark pass).
C4_MissingNeverAccepted ==
  MissingCase =>
    /\ vResult.outcome # "ok"
    /\ vResult.outcome = "errors" =>
         /\ \A key \in MissingKeys :
              (~Supplied(key) /\ ShapeField(RunTemplate, key).required) => Names(key)
         /\ (\A e \in Errors : ~e.prefixed) => \A key \in MissingKeys : Names(key)

\* C4 witness: a mandatory field that is not required was left out, and the
\* mandatory-mark pass named it.
C4_Witness ==
  /\ MissingCase
  /\ \E key \in MissingKeys :
       /\ ~ShapeField(RunTemplate, key).required
       /\ \E e \in Errors : e.message = MandatoryMessage /\ e.arg = <<key>>

ZeroPairCase ==
  /\ Ran /\ HasTemplate(templates, vTemplateId)
  /\ DefinesCoordinates(RunTemplate)
  /\ Get(vData, "latitude") \in {Num(0), NegZero}
  /\ Get(vData, "longitude") \in {Num(0), NegZero}

\* C6: a record with latitude 0 and longitude 0 (negative zero included) for
\* a template that defines both keys is never accepted; validation returns
\* an error list whenever the schema of the template can be built.
C6_ZeroPairRejected ==
  ZeroPairCase =>
    /\ vResult.outcome # "ok"
    /\ SchemaBuilds(RunTemplate) => vResult.outcome = "errors"

\* C6 witness: the pair (-0, 0) passed the type and mandatory passes and was
\* rejected by the zero rule.
C6_Witness ==
  /\ ZeroPairCase
  /\ Get(vData, "latitude") = NegZero
  /\ \E e \in Errors : e.message = ZeroMessage

\* C7 (as claimed): a value is accepted for a field of type latitude only if
\* it is finite and at most 90 in magnitude, for a field of type longitude
\* only if at most 180, whatever the key of the field.
C7_BoundByType ==
  (Ran /\ vResult.outcome = "ok") =>
    \A i \in 1..Len(RunTemplate.fields) :
      LET f == RunTemplate.fields[i]
          v == Get(vData, f.fieldKey)
      IN (f.type \in {"latitude", "longitude"} /\ v # Undefined) =>
           /\ v.k = "number"
           /\ Abs(v.n) <= (IF f.type = "latitude" THEN 90 ELSE 180) * Scale

LatitudeOmittedCase ==
  /\ Ran /\ vTemplateId = "public-facilities"
  /\ vData = SetKey(ExampleRecord, "latitude", Undefined)

\* C9 (as claimed): the example record without latitude fails, and the list
\* reports latitude as missing-mandatory and as coordinate-pair-incomplete.
C9_MandatoryAndPairReported ==
  LatitudeOmittedCase =>
    /\ vResult.outcome = "errors"
    /\ \E e \in Errors : e.message = MandatoryMessage /\ e.arg = <<"latitude">>
    /\ \E e \in Errors : e.message = PairMessage

\* C9 (amended): the example record without latitude fails in the
\* type/format pass: the list is "address: Required" followed by
\* "latitude: latitude is required", and holds neither the mandatory-mark
\* nor the pair message.
C9_RequiredReported ==
  LatitudeOmittedCase =>
    /\ vResult.outcome = "errors"
    /\ vResult.errors =
         <<ZodError("address", "Required", <<>>),
           ZodError("latitude", "${fieldKey} is required", <<"latitude">>)>>

\* C9 witness: the example record without latitude was validated and failed.
C9_Witness == LatitudeOmittedCase /\ vResult.outcome = "errors"

\* the stage a message belongs to: 1 lookup, 2 type/format, 3 mandatory
\* mark, 4 coordinate consistency
StageOf(e) ==
  IF e.prefixed THEN 2
  ELSE IF e.message = "Unknown template: ${templateId}" THEN 1
  ELSE IF e.message = MandatoryMessage THEN 3
  ELSE 4

\* the first stage the record fails, 5 when it fails none
FirstFailingStage ==
  IF ~HasTemplate(templates, vTemplateId) THEN 1
  ELSE LET parsed == SafeParse(RunTemplate, vData)
       IN IF parsed.status # "valid" THEN 2
          ELSE IF Len(MissingMandatory(RunTemplate, parsed.data)) > 0 THEN 3
          ELSE IF Len(validateCoordinates(Get(parsed.data, "latitude"),
                                          Get(parsed.data, "longitude"))) > 0
            THEN 4
          ELSE 5

\* C10: a returned error list is not empty and holds messages of one stage
\* alone, the first stage the record fails; an unknown template id yields the
\* unknown-template error and nothing else; a record that fails no stage is
\* accepted.
C10_FirstFailingStageOnly ==
  (Ran /\ vResult.outcome # "throw") =>
    /\ vResult.outcome = "errors" =>
         /\ Len(vResult.errors) > 0
         /\ \A e \in Errors : StageOf(e) = FirstFailingStage
    /\ ~HasTemplate(templates, vTemplateId) =>
         vResult.errors =
           <<PlainError("Unknown template: ${templateId}", <<vTemplateId>>)>>
    /\ vResult.outcome = "ok" <=> FirstFailingStage = 5

\* C10 witness: a record that fails the type/format pass and would fail the
\* mandatory-mark pass came back with the type/format errors alone.
C10_Witness ==
  /\ Ran /\ HasTemplate(templates, vTemplateId)
  /\ vResult.outcome = "errors"
  /\ \A e \in Errors : e.prefixed
  /\ Len(MissingMandatory(RunTemplate, StripUnknown(RunTemplate, vData))) > 0

-----------------------------------------------------------------------------
(* Properties of the record store over time, under Spec *)

\* C11 (as claimed): the item list of a model is append-only; an item stored
\* under a model id is still in that list, at the same position, after every
\* step of the program.
C11_AppendOnly ==
  [][\A id \in DOMAIN records :
       /\ id \in DOMAIN records'
       /\ Len(records'[id]) >= Len(records[id])
       /\ \A i \in 1..Len(records[id]) : records'[id][i] = records[id][i]]_vars

\* the number of items stored under the id
Count(recs, id) == IF id \in DOMAIN recs THEN Len(recs[id]) ELSE 0

\* C12: an item creation that is answered 404 (unknown model) or 400 (the
\* validation failed, the answer carrying its error list) leaves the record
\* store, the model map and the registry as they were; a list grows only in
\* an item creation whose validation returned ok, and then by exactly one
\* item, the one of the answer, at the end of the list of the requested id,
\* every other list staying as it was.
C12_FailedCreationChangesNothing ==
  [][/\ lastReq'.op = "createItem" =>
          /\ ~ModelKnown(lastReq'.id) => lastRes'.status = 404
          /\ (ModelKnown(lastReq'.id) /\ vResult'.outcome = "errors") =>
               (lastRes'.status = 400 /\ lastRes'.errors = vResult'.errors)
          /\ lastRes'.status # 201 => UNCHANGED <<records, models, templates>>
          /\ lastRes'.status = 201 =>
               /\ vResult'.outcome = "ok"
               /\ UNCHANGED <<models, templates>>
               /\ DOMAIN records' = DOMAIN records \cup {lastReq'.id}
               /\ records'[lastReq'.id] =
                    Append(IF lastReq'.id \in DOMAIN records
                             THEN records[lastReq'.id] ELSE <<>>,
                           lastRes'.item)
               /\ \A id \in DOMAIN records \ {lastReq'.id} :
                    records'[id] = records[id]
     /\ (\E id \in DOMAIN records' : Count(records', id) > Count(records, id)) =>
          /\ lastReq'.op = "createItem"
          /\ lastRes'.status = 201
          /\ vResult'.outcome = "ok"]_vars

\* C12 witness: an item creation was just answered 400 with its error list
\* while the store holds an item.
C12_Witness ==
  /\ lastReq.op = "createItem"
  /\ lastRes.status = 400
  /\ Len(lastRes.errors) > 0
  /\ \E id \in DOMAIN records : Len(records[id]) > 0

\* the items of the store, over all model ids
StoredItems ==
  UNION {{<<id, i>> : i \in 1..Len(records[id])} : id \in DOMAIN records}

\* C13 (as claimed): the id of every stored item is an identifier that uuid()
\* handed out, never a value of the submitted body, and no two stored items
\* share an id, whatever the template.
C13_IdsGenerated ==
  /\ \A p \in StoredItems :
       records[p[1]][p[2]]["id"] \in {Uuid(n) : n \in 1..uuidSeq}
  /\ \A p, q \in StoredItems :
       records[p[1]][p[2]]["id"] = records[q[1]][q[2]]["id"] => p = q

-----------------------------------------------------------------------------
(* Properties of the guard of /v1, under SpecAuth *)

\* the step is a run of ensureAuthenticated
GuardStep == authReq'.op = "v1" /\ ticks' = ticks

\* the token text the guard looks up for the header of the request
Presented == StripBearer(authReq'.header)

\* C14: the guard calls next() exactly for a request whose token is in the
\* token map and at most TOKEN_TTL_MS old, and req.auth is then the entry of
\* that token, whose client is registered; a request with no token or one
\* that is not in the map gets 401 invalid_token; a request whose token is
\* older gets 401 token_expired and the token leaves the map. An entry enters
\* the map only when the token endpoint answers a registered clientId
\* presented with its clientSecret, under a token never handed out before
\* and with the time of the request; an entry is never altered, and a token
\* that left the map never returns to it, so that it is refused ever after.
C14_GuardAdmitsLiveTokensOnly ==
  [][/\ GuardStep =>
          /\ authRes'.next <=>
               /\ HasToken(tokens, Presented)
               /\ clock - tokens[Presented[1]].createdAt <= TOKEN_TTL_MS
          /\ authRes'.next =>
               /\ authRes'.auth = tokens[Presented[1]]
               /\ authRes'.auth.clientId \in DOMAIN clients
               /\ tokens' = tokens
          /\ ~HasToken(tokens, Presented) =>
               /\ authRes'.status = 401
               /\ authRes'.error = "invalid_token"
               /\ tokens' = tokens
          /\ (/\ HasToken(tokens, Presented)
              /\ clock - tokens[Presented[1]].createdAt > TOKEN_TTL_MS) =>
               /\ authRes'.status = 401
               /\ authRes'.error = "token_expired"
               /\ tokens' = MapDelete(tokens, Presented[1])
     /\ \A t \in DOMAIN tokens' \ DOMAIN tokens :
          /\ authReq'.op = "token"
          /\ authReq'.clientId \in DOMAIN clients
          /\ authReq'.clientSecret = clients[authReq'.clientId].clientSecret
          /\ t = TokenText(tokenSeq + 1)
          /\ tokenSeq' = tokenSeq + 1
          /\ tokens'[t].createdAt = clock
          /\ tokens'[t].clientId = authReq'.clientId
     /\ \A t \in DOMAIN tokens \cap DOMAIN tokens' : tokens'[t] = tokens[t]
     /\ \A n \in 1..tokenSeq :
          TokenText(n) \notin DOMAIN tokens => TokenText(n) \notin DOMAIN tokens'
    ]_vars

\* C14 witness: a token older than its lifetime was just refused with
\* token_expired and is out of the map, while another token is still in it.
C14_Witness ==
  /\ authReq.op = "v1"
  /\ authRes.error = "token_expired"
  /\ StripBearer(authReq.header)[1] \notin DOMAIN tokens
  /\ tokens # EmptyMap

-----------------------------------------------------------------------------
(* Properties of the registry over time, under Spec *)

\* C15: the registry starts with the built-in templates in their order and
\* changes only when a confirm request is answered 201, by the template of
\* that request put at its end; the template listing returns the registry as
\* it is, so the built-in templates first and the added ones in the order
\* their adds succeeded; getTemplateById finds a template exactly for an id
\* of the registry, the template it returns has that id, and apply answers
\* 404 for every other id.
C15_InsertionOrder ==
  /\ [](/\ Len(templates) >= Len(BuiltInTemplates)
        /\ SubSeq(templates, 1, Len(BuiltInTemplates)) = BuiltInTemplates
        /\ \A id \in TemplateIds(templates) \cup {"no-such-model", "city-model"} :
             /\ HasTemplate(templates, id) <=> id \in TemplateIds(templates)
             /\ HasTemplate(templates, id) =>
                  /\ getTemplateById(templates, id).id = id
                  /\ getTemplateById(templates, id) \in Range(templates))
  /\ [][/\ templates' # templates =>
             /\ lastReq'.op = "confirm"
             /\ lastRes'.status = 201
             /\ Len(templates') = Len(templates) + 1
             /\ SubSeq(templates', 1, Len(templates)) = templates
             /\ templates'[Len(templates')].id = lastReq'.schema.id
        /\ lastReq'.op = "listTemplates" => lastRes'.templates = templates
        /\ lastReq'.op = "apply" =>
             (lastRes'.status = 404 <=> lastReq'.id \notin TemplateIds(templates))
       ]_vars

\* C15 witness: the listing returned the two built-in templates followed by
\* two added ones, meter-readings added before geo-points.
C15_Witness ==
  /\ lastReq.op = "listTemplates"
  /\ Len(lastRes.templates) = 4
  /\ lastRes.templates[1].id = "public-facilities"
  /\ lastRes.templates[2].id = "aed-locations"
  /\ lastRes.templates[3].id = "meter-readings"
  /\ lastRes.templates[4].id = "geo-points"

\* C16: a template of the registry is never altered and never removed: after
\* every step of the program (confirm, apply, schema read, listing, item
\* creation, publish) each template that was registered is still registered,
\* at its position, with the id, the label and the field definitions it had.
C16_TemplatesImmutable ==
  [][\A i \in 1..Len(templates) :
       /\ Len(templates') >= i
       /\ templates'[i].id = templates[i].id
       /\ templates'[i].label = templates[i].label
       /\ templates'[i].fields = templates[i].fields]_vars

\* C16 witness: a template added at run time is registered, was applied, and
\* an item stored for a built-in template was just published.
C16_Witness ==
  /\ Len(templates) > Len(BuiltInTemplates)
  /\ "city-model" \in DOMAIN models
  /\ lastReq.op = "publish"
  /\ lastRes.status = 202

-----------------------------------------------------------------------------
(* Properties of the registry on its own, under SpecRegistry *)

\* C17 (as claimed): no template of the registry, built-in or added through
\* the confirm endpoint, has two field definitions with the same fieldKey.
C17_FieldKeysUnique ==
  \A t \in 1..Len(templates) :
    \A i, j \in 1..Len(templates[t].fields) :
      templates[t].fields[i].fieldKey = templates[t].fields[j].fieldKey => i = j

-----------------------------------------------------------------------------
(* Further properties of the validator, under SpecValidator *)

\* C18 (as claimed): a record is accepted only if every value it supplies
\* for a field of type number is a finite number; Infinity and values that
\* are not numbers are rejected by the type pass.
C18_NumbersFinite ==
  (Ran /\ HasTemplate(templates, vTemplateId) /\ vResult.outcome = "ok") =>
    \A i \in 1..Len(RunTemplate.fields) :
      (/\ RunTemplate.fields[i].type = "number"
       /\ Supplied(RunTemplate.fields[i].fieldKey))
      => IsFinite(Get(vData, RunTemplate.fields[i].fieldKey))

-----------------------------------------------------------------------------
(* Properties of the CKAN adapter, under SpecCkan *)

\* the call went to CKAN and its answer has success === false
CkanFailure ==
  /\ ckanResult.statusCode # 0
  /\ ckanCall.baseUrl # ""
  /\ ckanCall.json.kind = "object"
  /\ ckanCall.json.success = "false"

\* C19: an answer of CKAN whose body has success === false becomes a 4xx
\* result whatever HTTP status CKAN sent: 403 when error.__type is
\* "Authorization Error", 404 when it is "Not Found Error", 400 otherwise
\* (error or __type missing included); never a 2xx.
C19_FailureIsClientError ==
  CkanFailure =>
    /\ ckanResult.statusCode \in 400..499
    /\ ckanResult.statusCode =
         (IF ckanCall.json.error.kind = "object"
               /\ ckanCall.json.error.type = "Authorization Error" THEN 403
          ELSE IF ckanCall.json.error.kind = "object"
               /\ ckanCall.json.error.type = "Not Found Error" THEN 404
          ELSE 400)

\* C19 witness: CKAN answered HTTP 200 with success false and an
\* authorization error, and the result is 403.
C19_Witness ==
  /\ CkanFailure
  /\ ckanCall.httpStatus = 200
  /\ ckanCall.json.error = CkanError("object", "Authorization Error")
  /\ ckanResult.statusCode = 403

-----------------------------------------------------------------------------
(* Properties of models instantiated from templates, under Spec *)

\* the id of the template the model id stands for: the template a model was
\* instantiated from, or the template of that id
TemplateOfModel(id) == IF id \in DOMAIN models THEN models[id].id ELSE id

\* C20 (as claimed): an item creation that is not answered 404 validates the
\* body against the template its model was instantiated from, the template
\* whose field list the schema endpoint returns for the model; a record
\* that template accepts is accepted and stored under the model id.
C20_ValidatedAgainstModelTemplate ==
  (lastReq.op = "createItem" /\ lastRes.status # 404) =>
    LET expected == validateItemAgainstTemplate(
                      templates, TemplateOfModel(lastReq.id), vData)
    IN /\ vResult.outcome = expected.outcome
       /\ vResult.errors = expected.errors
       /\ expected.outcome = "ok" =>
            /\ lastRes.status = 201
            /\ lastRes.item \in Range(records[lastReq.id])

\* C21 (as claimed): validateItemAgainstTemplate never throws: for every
\* template of the registry, schemas accepted by the confirm endpoint
\* included, and every record it returns ok with the value or the error list.
C21_ValidateNeverThrows ==
  Ran => vResult.outcome \in {"ok", "errors"}

-----------------------------------------------------------------------------
(* Properties of the token map, under SpecAuth *)

\* C22 (as claimed): every scope recorded for a token of the map is one of
\* the scopes registered for the client the token was issued to.
C22_ScopesWithinClient ==
  \A t \in DOMAIN tokens :
    \A i \in 1..Len(tokens[t].scope) :
      tokens[t].scope[i] \in
        {<<s>> : s \in Range(clients[tokens[t].clientId].scopes)}

-----------------------------------------------------------------------------
(* Properties of the WebSocket relay, under SpecWs *)

\* the users with an open connection joined to the model
JoinedUsers(modelId) ==
  {wsConns[c].user :
     c \in {d \in Conns : wsConns[d].state = "open" /\ wsConns[d].modelId = modelId}}

\* C23 (as claimed): after any interleaving of join, patch and close events
\* presence[modelId] is the set of the users that have an open connection
\* joined to modelId.
C23_PresenceIsOpenJoined ==
  \A modelId \in {r[1] : r \in JoinRequests} :
    PresenceOf(wsPresence, modelId) = JoinedUsers(modelId)

\* the cell of the store, "" when it has no value
Cell(st, modelId, rowId, key) ==
  IF modelId \in DOMAIN st /\ rowId \in DOMAIN st[modelId]
     /\ key \in DOMAIN st[modelId][rowId]
    THEN st[modelId][rowId][key] ELSE ""

\* the cell as a client reads it in the items of a snapshot: items[rowId][key]
SnapshotCell(items, rowId, key) ==
  IF \E i \in 1..Len(items) :
       IndexNames[i] = rowId /\ ~items[i].null /\ key \in DOMAIN items[i].row
    THEN items[CHOOSE i \in 1..Len(items) : IndexNames[i] = rowId].row[key]
    ELSE ""

\* the cells the patches of the model address
PatchedCells ==
  UNION {{<<r[1], r[2][i].rowId, r[2][i].key>> : i \in 1..Len(r[2])} :
           r \in PatchRequests}

\* the positions of the edits of the message that address the cell
EditsOf(edits, rowId, key) ==
  {i \in 1..Len(edits) : edits[i].rowId = rowId /\ edits[i].key = key}

\* C24 (as claimed): a patch message leaves in every cell it addresses the
\* newValue of its last edit of that cell and leaves every other cell, of
\* this and of every other model, as it was, and it is broadcast as a patch
\* to every open connection; the snapshot sent to a connection that joins a
\* model holds exactly the current store of that model, every cell with the
\* value the patches before the join left in it.
C24_LastWriterWinsAndSnapshot ==
  [][/\ wsEvent'.type = "patch" /\ wsEvents' = wsEvents + 1 =>
          /\ \A cell \in PatchedCells :
               LET hits == IF cell[1] = wsEvent'.modelId
                             THEN EditsOf(wsEvent'.edits, cell[2], cell[3])
                             ELSE {}
               IN Cell(wsStore', cell[1], cell[2], cell[3]) =
                    IF hits = {} THEN Cell(wsStore, cell[1], cell[2], cell[3])
                    ELSE wsEvent'.edits[CHOOSE i \in hits : \A j \in hits : j <= i].newValue
          /\ \A c \in Conns :
               wsConns[c].state = "open" =>
                 /\ Len(wsSent'[c]) = 1
                 /\ wsSent'[c][1].type = "patch"
                 /\ wsSent'[c][1].modelId = wsEvent'.modelId
                 /\ wsSent'[c][1].edits = wsEvent'.edits
     /\ wsEvent'.type = "join" /\ wsEvents' = wsEvents + 1 =>
          LET sent == wsSent'[wsEvent'.conn]
              snapshot == sent[Len(sent)]
          IN /\ snapshot.type = "snapshot"
             /\ snapshot.modelId = wsEvent'.modelId
             /\ wsStore' = wsStore
             /\ \A cell \in PatchedCells :
                  cell[1] = wsEvent'.modelId =>
                    SnapshotCell(snapshot.items, cell[2], cell[3]) =
                      Cell(wsStore, cell[1], cell[2], cell[3])
    ]_vars

-----------------------------------------------------------------------------
(* C25: the schema generator ends with a schema *)

\* the attempts of the call that reached the model
CallsMade == {i \in 1..Len(aiCall.attempts) : aiCall.attempts[i].sent}

\* the attempt failed: the call, the parse or the validation threw
AttemptFailed(i) ==
  ~Attempted(aiCall.apiKey, aiCall.attempts[i].response).ok

\* the part of the claim that does not concern the escalation: the loop
\* counter stays within maxRetries while the call runs, no more than
\* maxRetries + 1 calls go out, a returned call has exactly one result, which
\* is the validated first successful response with aiGenerated = TRUE or,
\* after maxRetries + 1 failures, the rule-based schema with aiGenerated = FALSE
EndsWithSchema ==
  /\ aiCall.state \in {"idle", "running", "returned"}
  /\ aiCall.state = "running" =>
       /\ aiCall.attempt <= aiCall.maxRetries
       /\ Len(aiCall.attempts) = aiCall.attempt
       /\ aiCall.result = <<>>
  /\ Cardinality(CallsMade) <= aiCall.maxRetries + 1
  /\ Len(aiCall.attempts) <= aiCall.maxRetries + 1
  /\ aiCall.state = "returned" /\ aiCall.provider # "gemini" =>
       LET n == Len(aiCall.attempts)
       IN /\ Len(aiCall.result) = 1
          /\ n >= 1
          /\ \A i \in 1..(n - 1) : AttemptFailed(i)
          /\ IF AttemptFailed(n)
               THEN /\ n = aiCall.maxRetries + 1
                    /\ aiCall.result[1] = RuleBasedResult(aiCall.analysis)
                    /\ ~aiCall.result[1].aiGenerated
               ELSE /\ aiCall.result[1].aiGenerated
                    /\ aiCall.result[1].schema =
                         Attempted(aiCall.apiKey,
                                   aiCall.attempts[n].response).value
                    /\ aiCall.result[1].provider = aiCall.attempts[n].model

\* the attempt was made with gpt-4o and the strict flag: callOpenAI was
\* called with them, and the request names the model
Escalated(i) ==
  /\ aiCall.attempts[i].model = "gpt-4o"
  /\ aiCall.attempts[i].strict
  /\ aiCall.attempts[i].request.model = "gpt-4o"

-----------------------------------------------------------------------------
(* C26: the coordinate pass after the type/format pass *)

\* the template defines latitude and longitude, and every field keyed
\* latitude or longitude has the type of its key
TypedCoordinates(template) ==
  /\ DefinesCoordinates(template)
  /\ \A i \in 1..Len(template.fields) :
       template.fields[i].fieldKey \in {"latitude", "longitude"} =>
         template.fields[i].type = template.fields[i].fieldKey

ZeroError == PlainError(ZeroMessage, <<>>)

\* the record passed the type/format and the mandatory-mark pass
PassedFirstPasses ==
  /\ Ran /\ vResult.outcome # "throw"
  /\ HasTemplate(templates, vTemplateId)
  /\ SafeParse(RunTemplate, vData).status = "valid"
  /\ Len(MissingMandatory(RunTemplate, SafeParse(RunTemplate, vData).data)) = 0

\* what validateCoordinates returns for the parsed record
CoordinatePass ==
  validateCoordinates(Get(SafeParse(RunTemplate, vData).data, "latitude"),
                      Get(SafeParse(RunTemplate, vData).data, "longitude"))

\* C26: for a template whose latitude and longitude fields have the types
\* latitude and longitude, a record that passed the type/format pass and the
\* mandatory-mark pass fails the coordinate pass only with the
\* cannot-both-be-zero error: the pass returns no error or that error alone,
\* then for the pair (0, 0), never a bounds or finiteness error.
C26_CoordinatePassOnlyZero ==
  (PassedFirstPasses /\ TypedCoordinates(RunTemplate)) =>
    /\ CoordinatePass \in {<<>>, <<ZeroError>>}
    /\ vResult.outcome = "errors" =>
         /\ vResult.errors = <<ZeroError>>
         /\ IsZero(Get(vData, "latitude"))
         /\ IsZero(Get(vData, "longitude"))
    /\ vResult.outcome = "ok" => CoordinatePass = <<>>

\* C26 witness: a record of a template with typed coordinates passed the
\* first two passes and was rejected by the coordinate pass for the zero pair.
C26_Witness ==
  /\ PassedFirstPasses
  /\ TypedCoordinates(RunTemplate)
  /\ vResult.outcome = "errors"
  /\ vResult.errors = <<ZeroError>>

\* the premise matters: with the coordinates typed number the coordinate pass
\* is the one that reports the bounds
C26_UntypedBoundsCase ==
  /\ PassedFirstPasses
  /\ DefinesCoordinates(RunTemplate)
  /\ ~TypedCoordinates(RunTemplate)
  /\ vResult.outcome = "errors"
  /\ ZeroError \notin Errors

====
